---- MODULE Spec2Model ----
(***************************************************************************)
(* The locked Socket.IO signaling server (src/unnamed/part_000).           *)
(*                                                                         *)
(* Node runs one callback at a time.  An inbound socket event runs its     *)
(* handler up to the handler's first await; the rest of the handler runs   *)
(* as promise continuations, which the runtime takes from a FIFO queue     *)
(* and drains completely before the next timer or I/O callback.  The       *)
(* events one connection sent in one batch are dispatched back to back,    *)
(* before the continuations of the first of them run; events of different  *)
(* connections, a disconnect and the timers come in callbacks of their     *)
(* own, with the queue drained in between.  A handler invocation is a      *)
(* "task": a chain of async frames of which at most one continuation is    *)
(* pending at a time.                                                      *)
(***************************************************************************)
EXTENDS Integers, Sequences, FiniteSets, TLC

\* ---------------------------------------------------------------- bounds
\* Handler invocations (socket events handled) in one behaviour.
MaxEvents == 4
\* Firings of the 30-minute sweep timer in one behaviour.
MaxSweeps == 1
\* Transactions sent to the Meeting contract in one behaviour.
MaxCalls == 4
\* Meetings created in one behaviour (meetingCount is not bounded in the code).
MaxMeetingId == 2
\* Five-minute periods of the delayed-delete server's clock that are followed
\* one by one, before and after an idle hour.
MaxTicks == 2
\* Messages handled by the WebSocket server in one behaviour.
MaxMessages == 3

\* ------------------------------------------------------ program constants
MaxMessageLen == 1000
maxParticipants == 50
RateWindow == 60000
RateMax == 30
inactiveThreshold == 7200000
SweepInterval == 1800000
MinRoomIdLen == 3
MaxRoomIdLen == 50
MaxNameLen == 50

\* -------------------------------------------------------------- JS values
\* A JavaScript value is a tagged record; a string is a tuple of characters.
Undef == [t |-> "undefined", v |-> <<>>]
Null == [t |-> "null", v |-> <<>>]
Str(s) == [t |-> "string", v |-> s]
Num(n) == [t |-> "number", v |-> n]
Obj(f) == [t |-> "object", v |-> f]

\* A missing property read as the name of the hall.
GetOrHall(o, f) ==
    IF f \in DOMAIN o.v /\ o.v[f].t # "undefined" THEN o.v[f]
    ELSE Str(<<"h", "a", "l", "l">>)

\* data.field (undefined when the property is missing)
Get(o, f) == IF f \in DOMAIN o.v THEN o.v[f] ELSE Undef

\* JavaScript truthiness: !x is ~Truthy(x)
Truthy(x) ==
    CASE x.t = "undefined" -> FALSE
      [] x.t = "null" -> FALSE
      [] x.t = "string" -> Len(x.v) > 0
      [] x.t = "number" -> x.v # 0
      [] OTHER -> TRUE

\* The character class [a-zA-Z0-9-_]
AllowedChars ==
    {"a","b","c","d","e","f","g","h","i","j","k","l","m",
     "n","o","p","q","r","s","t","u","v","w","x","y","z",
     "A","B","C","D","E","F","G","H","I","J","K","L","M",
     "N","O","P","Q","R","S","T","U","V","W","X","Y","Z",
     "0","1","2","3","4","5","6","7","8","9","-","_"}

\* The validator without the character check.
validateRoomIdAnyChars(roomId) ==
    IF ~Truthy(roomId) \/ roomId.t # "string"
    THEN [isValid |-> FALSE, error |-> "Room ID must be a non-empty string"]
    ELSE IF Len(roomId.v) < MinRoomIdLen \/ Len(roomId.v) > MaxRoomIdLen
    THEN [isValid |-> FALSE, error |-> "Room ID must be between 3-50 characters"]
    ELSE [isValid |-> TRUE, error |-> ""]

\* The length check without its lower bound.
validateRoomIdNoMin(roomId) ==
    IF ~Truthy(roomId) \/ roomId.t # "string"
    THEN [isValid |-> FALSE, error |-> "Room ID must be a non-empty string"]
    ELSE IF Len(roomId.v) > MaxRoomIdLen
    THEN [isValid |-> FALSE, error |-> "Room ID must be between 3-50 characters"]
    ELSE IF \E i \in 1..Len(roomId.v) : roomId.v[i] \notin AllowedChars
    THEN [isValid |-> FALSE, error |-> "Room ID can only contain letters, numbers, hyphens, and underscores"]
    ELSE [isValid |-> TRUE, error |-> ""]

validateRoomId(roomId) ==
    IF ~Truthy(roomId) \/ roomId.t # "string"
    THEN [isValid |-> FALSE, error |-> "Room ID must be a non-empty string"]
    ELSE IF Len(roomId.v) < MinRoomIdLen \/ Len(roomId.v) > MaxRoomIdLen
    THEN [isValid |-> FALSE, error |-> "Room ID must be between 3-50 characters"]
    ELSE IF \E i \in 1..Len(roomId.v) : roomId.v[i] \notin AllowedChars
    THEN [isValid |-> FALSE, error |-> "Room ID can only contain letters, numbers, hyphens, and underscores"]
    ELSE [isValid |-> TRUE, error |-> ""]

validateUserInfo(userInfo) ==
    IF ~Truthy(userInfo) \/ userInfo.t # "object"
    THEN [isValid |-> FALSE, error |-> "User info must be an object"]
    ELSE IF Truthy(Get(userInfo, "name")) /\ Get(userInfo, "name").t # "string"
    THEN [isValid |-> FALSE, error |-> "User name must be a string"]
    ELSE IF Truthy(Get(userInfo, "name")) /\ Len(Get(userInfo, "name").v) > MaxNameLen
    THEN [isValid |-> FALSE, error |-> "User name must be less than 50 characters"]
    ELSE [isValid |-> TRUE, error |-> ""]

\* ------------------------------------------------------------ environment
\* Connections that send events.
Active == {1, 2, 3}
\* Connections that joined the room Hall before the behaviours start and
\* send nothing afterwards: with connection 1, which created Hall, they fill
\* it up to one place below the cap.
Crowd == {100 + i : i \in 1..(maxParticipants - 2)}
Sockets == Active \cup Crowd

RM1 == <<"r", "m", "1">>
Hall == <<"h", "a", "l", "l">>
RoomIds == {RM1, Hall}
NoRoom == <<>>

Rep(c, n) == [i \in 1..n |-> c]
GoodUser == Obj([name |-> Str(<<"A", "l">>)])

\* join-room payloads a client may send
GoodData == {Obj([roomId |-> Str(r), userInfo |-> GoodUser]) : r \in RoomIds}
NonObjectData == {Undef, Str(<<"x">>)}
BadRoomData ==
    {Obj([roomId |-> x, userInfo |-> GoodUser]) :
        x \in {Undef, Num(7), Str(<<>>), Str(<<"r", "1">>), Str(<<"r", "m", "!">>),
               Str(Rep("a", MaxRoomIdLen + 1))}}
BadUserData ==
    {Obj([roomId |-> Str(RM1), userInfo |-> x]) :
        x \in {Undef, Str(<<"A", "l">>), Obj([name |-> Num(7)]),
               Obj([name |-> Str(Rep("a", MaxNameLen + 1))])}}

\* ------------------------------------------------------------------ state
VARIABLES
    conn,          \* socket -> "open" | "closed" (the transport's view)
    users,         \* Map socket.id -> [currentRoom]
    rooms,         \* Map roomId -> [participants, host, lastActivity]
    roomLocks,     \* Map roomId -> the lock promise, named by the frame that made it
    rateLimitMap,  \* Map socket.id -> timestamps of admitted join-room requests
    subs,          \* socket -> room channels it is subscribed to (socket.join/leave)
    now,           \* Date.now()
    tasks,         \* live handler invocations: id -> frame chain state
    queue,         \* the runtime's FIFO of pending promise continuations (task ids)
    waiting,       \* tasks awaiting a lock promise, in the order they began to wait
    burst,         \* the connection whose batch of events is being dispatched, if any
    nEvents,       \* handler invocations so far
    nSweeps,       \* sweep timer firings so far
    out,           \* the emit calls of the last step, in order
    peers,         \* the clients' peer connections: <<client, peerId, shouldCreateOffer>>
    owner,         \* Meeting.owner
    meetingCount,  \* Meeting.meetingCount
    meetings,      \* Meeting.meetings: id -> MeetingInfo
    meetingParticipants,  \* Meeting.meetingParticipants: id -> address[]
    tx,            \* the last transaction sent to the contract and its outcome
    nCalls,        \* transactions so far
    backend,       \* backend/server.js: rooms, participants, socket.roomId, timers
    wsServer       \* frontend/backend/server.js: rooms, clients, sockets, sends

vars == <<conn, users, rooms, roomLocks, rateLimitMap, subs, now, tasks, queue,
          waiting, burst, nEvents, nSweeps, out, peers,
          owner, meetingCount, meetings, meetingParticipants, tx, nCalls,
          backend, wsServer>>

\* The state of the signaling server and its clients
server == <<conn, users, rooms, roomLocks, rateLimitMap, subs, now, tasks, queue,
            waiting, burst, nEvents, nSweeps, out, peers>>
\* The state of the Meeting contract
chain == <<owner, meetingCount, meetings, meetingParticipants, tx, nCalls>>
\* The state of the two other server variants of the repository
variants == <<backend, wsServer>>

\* ------------------------------------------------------------ Map helpers
Put(f, k, v) == [x \in (DOMAIN f) \cup {k} |-> IF x = k THEN v ELSE f[x]]
Del(f, k) == [x \in (DOMAIN f) \ {k} |-> f[x]]
Has(f, k) == k \in DOMAIN f
EmptyMap == [x \in {} |-> 0]

Ids(participants) == {participants[i].id : i \in 1..Len(participants)}

\* ------------------------------------------------------------------ emits
\* What one emit call sends, and the connections it is delivered to.
Ev(ev, src, to, room, id, count, list, code) ==
    [ev |-> ev, src |-> src, to |-> to, room |-> room, id |-> id,
     count |-> count, list |-> list, code |-> code]

\* socket.emit(...): to the connection itself, if it is still connected
ToSelf(st, sock) == IF st.conn[sock] = "open" THEN {sock} ELSE {}
\* socket.to(roomId).emit(...): the channel's subscribers except the emitter
ToRoomExcept(st, roomId, sock) == {x \in Sockets : roomId \in st.subs[x]} \ {sock}
\* io.to(id).emit(...): the private channel of connection id
ToSocket(st, id) == IF st.conn[id] = "open" THEN {id} ELSE {}

JoinError(st, sock, code) ==
    Ev("join-error", sock, ToSelf(st, sock), NoRoom, 0, 0, <<>>, code)

\* ------------------------------------------------------------ the clients
\* Every connection is driven by a WebRTCService (src/unnamed/part_006).  Its
\* map `peers` holds one peer connection per peer id; what matters of a peer
\* connection here is the flag it was created with: shouldCreateOffer = TRUE
\* means this client sends the offer for it.
PeerConn(client, peerId, offer) == <<client, peerId, offer>>

\* removePeerConnection(peerId) followed by peers.set(peerId, ...), in each
\* of the clients cs
createPeerConnection(ps, cs, peerIds, shouldCreateOffer) ==
    {p \in ps : ~(p[1] \in cs /\ p[2] \in peerIds /\ p[2] # p[1])}
    \cup {PeerConn(x[1], x[2], shouldCreateOffer) :
             x \in {y \in cs \X peerIds : y[1] # y[2]}}

\* removePeerConnection(peerId) in each of the clients cs
removePeerConnection(ps, cs, peerIds) ==
    {p \in ps : ~(p[1] \in cs /\ p[2] \in peerIds)}

\* handleOffer(data): a client that has no peer connection for fromId
\* creates one, without an offer, before it answers.
handleOffer(ps, cs, fromId) ==
    createPeerConnection(ps, {c \in cs : \A p \in ps : ~(p[1] = c /\ p[2] = fromId)},
                         {fromId}, FALSE)

\* The user-joined handler creating its peer connection with an offer.
OnEventOfferOnUserJoined(ps, e) ==
    CASE e.ev = "joined-room" -> createPeerConnection(ps, e.to, Ids(e.list), TRUE)
      [] e.ev = "user-joined" -> createPeerConnection(ps, e.to, {e.id}, TRUE)
      [] e.ev = "user-left" -> removePeerConnection(ps, e.to, {e.id})
      [] OTHER -> ps

\* The handlers setupEventHandlers registers, run by every client the
\* event e is delivered to.
OnEvent(ps, e) ==
    CASE e.ev = "joined-room" -> createPeerConnection(ps, e.to, Ids(e.list), TRUE)
      [] e.ev = "user-joined" -> createPeerConnection(ps, e.to, {e.id}, FALSE)
      [] e.ev = "user-left" -> removePeerConnection(ps, e.to, {e.id})
      [] e.ev = "offer" -> handleOffer(ps, e.to, e.src)
      [] OTHER -> ps

\* The events of one server step reach each client in the order emitted.
RECURSIVE Deliver(_, _)
Deliver(ps, events) ==
    IF events = <<>> THEN ps
    ELSE Deliver(OnEvent(ps, Head(events)), Tail(events))

\* leaveRoom(): after emitting leave-room the client closes all its peer
\* connections.
leaveRoom(ps, client) == {p \in ps : p[1] # client}

\* ------------------------------------------------ the server state record
\* The state one synchronous run of code reads and writes, threaded through
\* the operators below; Commit writes it back.
Cur ==
    [conn |-> conn, users |-> users, rooms |-> rooms, roomLocks |-> roomLocks,
     subs |-> subs, tasks |-> tasks, queue |-> queue, waiting |-> waiting,
     out |-> <<>>, peers |-> peers]

Commit(st) ==
    /\ conn' = st.conn
    /\ users' = st.users
    /\ rooms' = st.rooms
    /\ roomLocks' = st.roomLocks
    /\ subs' = st.subs
    /\ tasks' = st.tasks
    /\ queue' = st.queue
    /\ waiting' = st.waiting
    /\ out' = st.out
    /\ peers' = Deliver(st.peers, st.out)

\* ---------------------------------------------------- the room operations
\* Host hand-off without the flag: room.host moves, newHost.isHost stays.
PromoteFirstNoFlag(parts) == parts

\* `newHost = room.participants[0]; newHost.isHost = true`
PromoteFirst(parts) == [parts EXCEPT ![1].isHost = TRUE]

\* The empty room is kept in the map.
KeepEmptyRoom(rs, roomId) == [rs EXCEPT ![roomId].participants = <<>>]

\* `if (room.participants.length === 0) rooms.delete(roomId)`
DeleteEmptyRoom(rs, roomId) == Del(rs, roomId)

\* The capacity check off by one.
RoomIsFullOffByOne(room) == Len(room.participants) > maxParticipants

\* `room.participants.length >= room.maxParticipants`
RoomIsFull(room) == Len(room.participants) >= maxParticipants

\* The joiner is listed among the participants it is told about.
ExistingWithSelf(parts, sock) == parts

\* `existingParticipants: room.participants.filter(p => p.id !== socket.id)`
ExistingParticipants(parts, sock) == SelectSeq(parts, LAMBDA p : p.id # sock)

\* The leave operation without `user.currentRoom = null`.
LeaveOpKeepsRegistry(st, sock, roomId) ==
    IF ~Has(st.rooms, roomId) THEN st
    ELSE
      LET room == st.rooms[roomId]
          parts == SelectSeq(room.participants, LAMBDA p : p.id # sock)
          st1 == [st EXCEPT !.subs = [@ EXCEPT ![sock] = @ \ {roomId}]]
          left == Ev("user-left", sock, ToRoomExcept(st1, roomId, sock), roomId,
                     sock, Len(parts), <<>>, "")
      IN  IF Len(parts) = 0
          THEN [st1 EXCEPT !.rooms = DeleteEmptyRoom(@, roomId),
                           !.out = @ \o <<left>>]
          ELSE [st1 EXCEPT !.rooms = [@ EXCEPT ![roomId].participants = parts],
                           !.out = @ \o <<left>>]

\* The operation leaveCurrentRoom passes to withRoomLock.  It has no await:
\* it runs in one piece.  user is the registry object read before the lock
\* was awaited; writing to it is visible only while it is still registered.
LeaveOp(st, sock, roomId) ==
    IF ~Has(st.rooms, roomId) THEN st
    ELSE
      LET room == st.rooms[roomId]
          parts == SelectSeq(room.participants, LAMBDA p : p.id # sock)
          st1 == [st EXCEPT
                    !.subs = [@ EXCEPT ![sock] = @ \ {roomId}],
                    !.users = IF Has(@, sock)
                              THEN [@ EXCEPT ![sock].currentRoom = NoRoom]
                              ELSE @]
          left == Ev("user-left", sock, ToRoomExcept(st1, roomId, sock), roomId,
                     sock, Len(parts), <<>>, "")
      IN  IF Len(parts) = 0
          THEN [st1 EXCEPT !.rooms = DeleteEmptyRoom(@, roomId),
                           !.out = @ \o <<left>>]
          ELSE IF room.host = sock
          THEN LET newHost == parts[1].id
                   parts2 == PromoteFirst(parts)
               IN  [st1 EXCEPT
                      !.rooms = [@ EXCEPT ![roomId].participants = parts2,
                                          ![roomId].host = newHost],
                      !.out = @ \o <<left,
                          Ev("host-transferred", sock, ToSocket(st1, newHost),
                             roomId, newHost, 0, <<>>, ""),
                          Ev("host-changed", sock, ToRoomExcept(st1, roomId, sock),
                             roomId, newHost, 0, <<>>, "")>>]
          ELSE [st1 EXCEPT !.rooms = [@ EXCEPT ![roomId].participants = parts],
                           !.out = @ \o <<left>>]

\* The part of the join operation after `await leaveCurrentRoom(socket)`.
JoinOp(st, sock, roomId) ==
    LET rooms0 == IF Has(st.rooms, roomId) THEN st.rooms
                  ELSE Put(st.rooms, roomId,
                           [participants |-> <<>>, host |-> sock, lastActivity |-> now])
        room == rooms0[roomId]
    IN  IF RoomIsFull(room)
        THEN [st EXCEPT !.rooms = rooms0,
                        !.out = @ \o <<JoinError(st, sock, "ROOM_FULL")>>]
        ELSE IF sock \in Ids(room.participants)
        THEN [st EXCEPT !.rooms = rooms0,
                        !.out = @ \o <<JoinError(st, sock, "ALREADY_IN_ROOM")>>]
        ELSE
          LET participant ==
                  [id |-> sock,
                   isHost |-> (Len(room.participants) = 0 \/ sock = room.host)]
              parts == Append(room.participants, participant)
              st1 == [st EXCEPT
                        !.rooms = [rooms0 EXCEPT ![roomId].participants = parts,
                                                 ![roomId].lastActivity = now],
                        \* socket.join does nothing once the socket is closed
                        !.subs = IF st.conn[sock] = "open"
                                 THEN [@ EXCEPT ![sock] = @ \cup {roomId}]
                                 ELSE @,
                        !.users = IF Has(@, sock)
                                  THEN [@ EXCEPT ![sock].currentRoom = roomId]
                                  ELSE @]
          IN  [st1 EXCEPT !.out = @ \o
                 <<Ev("joined-room", sock, ToSelf(st1, sock), roomId, room.host,
                      Len(parts), ExistingParticipants(parts, sock), ""),
                   Ev("user-joined", sock, ToRoomExcept(st1, roomId, sock), roomId,
                      sock, Len(parts), <<>>, "")>>]

\* ------------------------------------------------------ tasks and promises
NoLock == <<0, "">>
\* The lock promise made by task tid's withRoomLock frame: "W" is the frame
\* the join-room handler calls, "L" the one leaveCurrentRoom calls.
LockOf(tid, frame) == <<tid, frame>>

\* from and member are history: the requester's registry room and whether
\* it was in the target room's participant list when the event came in.
NewTask(sock, kind, roomId) ==
    [sock |-> sock, kind |-> kind, room |-> roomId, lroom |-> NoRoom,
     pc |-> "start", wait |-> NoLock,
     from |-> IF Has(users, sock) THEN users[sock].currentRoom ELSE NoRoom,
     member |-> (Has(rooms, roomId) /\ sock \in Ids(rooms[roomId].participants))]

\* The task's continuation is put on the runtime's queue.
Resume(st, tid, pc) ==
    [st EXCEPT !.tasks = [@ EXCEPT ![tid].pc = pc, ![tid].wait = NoLock],
               !.queue = Append(@, tid)]

\* `await roomLocks.get(roomId)`: the task waits for that promise.
Await(st, tid, pc, lock) ==
    [st EXCEPT !.tasks = [@ EXCEPT ![tid].pc = pc, ![tid].wait = lock],
               !.waiting = Append(@, tid)]

\* The finally block of withRoomLock: `roomLocks.delete(roomId)` removes
\* whatever promise the map holds for the room, and `resolvelock()` resumes
\* the tasks awaiting this frame's promise, in the order they began to wait.
Release(st, roomId, lock) ==
    LET woken == SelectSeq(st.waiting, LAMBDA t : st.tasks[t].wait = lock)
    IN  [st EXCEPT
           !.roomLocks = Del(@, roomId),
           !.waiting = SelectSeq(@, LAMBDA t : st.tasks[t].wait # lock),
           !.queue = @ \o woken,
           !.tasks = [t \in DOMAIN @ |->
                        IF @[t].wait = lock THEN [@[t] EXCEPT !.wait = NoLock]
                        ELSE @[t]]]

\* leaveCurrentRoom has returned.  The join operation awaits its promise and
\* goes on one tick later; the leave-room and disconnect handlers do not
\* await it, so there the task is over.
LeaveReturned(st, tid) ==
    IF st.tasks[tid].kind = "join"
    THEN Resume(st, tid, "op_join")
    ELSE [st EXCEPT !.tasks = Del(@, tid)]

\* withRoomLock past its wait, called by leaveCurrentRoom: the lock is set,
\* the operation runs to its end, and the frame awaits the operation's
\* (already resolved) promise.
AcquireLeaveLock(st, tid) ==
    LET t == st.tasks[tid]
        st1 == [st EXCEPT !.roomLocks = Put(@, t.lroom, LockOf(tid, "L"))]
    IN  Resume(LeaveOp(st1, t.sock, t.lroom), tid, "L_rel")

\* leaveCurrentRoom without the early return for a null currentRoom.
leaveCurrentRoomNoGuard(st, tid) ==
    LET sock == st.tasks[tid].sock
    IN  IF ~Has(st.users, sock)
        THEN LeaveReturned(st, tid)
        ELSE LET roomId == st.users[sock].currentRoom
                 st1 == [st EXCEPT !.tasks = [@ EXCEPT ![tid].lroom = roomId]]
             IN  IF Has(st1.roomLocks, roomId)
                 THEN Await(st1, tid, "L_acq", st1.roomLocks[roomId])
                 ELSE AcquireLeaveLock(st1, tid)

\* leaveCurrentRoom up to its first await.
leaveCurrentRoom(st, tid) ==
    LET sock == st.tasks[tid].sock
    IN  IF ~Has(st.users, sock) \/ st.users[sock].currentRoom = NoRoom
        THEN LeaveReturned(st, tid)
        ELSE LET roomId == st.users[sock].currentRoom
                 st1 == [st EXCEPT !.tasks = [@ EXCEPT ![tid].lroom = roomId]]
             IN  IF Has(st1.roomLocks, roomId)
                 THEN Await(st1, tid, "L_acq", st1.roomLocks[roomId])
                 ELSE AcquireLeaveLock(st1, tid)

\* withRoomLock past its wait, called by the join-room handler: the lock is
\* set and the operation starts, running up to `await leaveCurrentRoom`.
AcquireJoinLock(st, tid) ==
    LET st1 == [st EXCEPT
                  !.roomLocks = Put(@, st.tasks[tid].room, LockOf(tid, "W"))]
    IN  leaveCurrentRoom(st1, tid)

\* withRoomLock as the join-room handler calls it, up to its first await.
withRoomLock(st, tid) ==
    LET roomId == st.tasks[tid].room
    IN  IF Has(st.roomLocks, roomId)
        THEN Await(st, tid, "W_acq", st.roomLocks[roomId])
        ELSE AcquireJoinLock(st, tid)

\* checkRateLimit: the timestamps of the last minute, and the verdict
RecentActions(sock) ==
    SelectSeq(IF Has(rateLimitMap, sock) THEN rateLimitMap[sock] ELSE <<>>,
              LAMBDA time : now - time < RateWindow)

\* The limiter admitting one request too many.
checkRateLimitOneMore(sock) == Len(RecentActions(sock)) <= RateMax

checkRateLimit(sock) == Len(RecentActions(sock)) < RateMax

\* ------------------------------------------------------ the Meeting contract
\* src/unnamed/part_003.  A transaction runs one public function to its end
\* or reverts; a reverted transaction leaves the storage as it was.

\* address(0), which no transaction has as msg.sender
ZeroAddress == "0x0"
\* The accounts that send transactions; the first one deploys the contract.
Accounts == {"alice", "bob"}
Deployer == "alice"
\* The keys of the mappings that transactions name
MeetingIds == 0 .. MaxMeetingId

\* constructor()
Deployed ==
    /\ owner = Deployer
    /\ meetingCount = 0
    \* A mapping's value at a key never written: every field is zero.
    /\ meetings = [k \in MeetingIds |->
                      [id |-> 0, creator |-> ZeroAddress, title |-> "", description |-> "",
                       creationTime |-> 0, scheduledTime |-> 0, isPrivate |-> FALSE,
                       participants |-> <<>>]]
    /\ meetingParticipants = [k \in MeetingIds |-> <<>>]
    /\ tx = [fn |-> "constructor", sender |-> Deployer, meetingId |-> 0,
             participant |-> ZeroAddress, status |-> "ok", event |-> "none"]
    /\ nCalls = 0

\* isParticipant(meetingId, user), and the loops of addParticipant and
\* joinMeeting that look for an address in m.participants
isParticipant(meetingId, user) ==
    \E i \in 1 .. Len(meetings[meetingId].participants) :
        meetings[meetingId].participants[i] = user

\* getParticipants(meetingId)
getParticipants(meetingId) == meetings[meetingId].participants

\* The record of a transaction
Tx(fn, sender, meetingId, participant, status, event) ==
    [fn |-> fn, sender |-> sender, meetingId |-> meetingId,
     participant |-> participant, status |-> status, event |-> event]

\* A failed require: the storage is unchanged, the reason is returned.
Revert(fn, sender, meetingId, participant, reason) ==
    /\ tx' = Tx(fn, sender, meetingId, participant, reason, "none")
    /\ UNCHANGED <<owner, meetingCount, meetings, meetingParticipants>>

\* m.participants.push(participant) followed by the ParticipantAdded event
PushParticipant(fn, sender, meetingId, participant) ==
    /\ meetings' = [meetings EXCEPT ![meetingId].participants = Append(@, participant)]
    /\ tx' = Tx(fn, sender, meetingId, participant, "ok", "ParticipantAdded")
    /\ UNCHANGED <<owner, meetingCount, meetingParticipants>>

\* A transaction is sent: msg.sender is an account
Sent ==
    /\ nCalls < MaxCalls
    /\ nCalls' = nCalls + 1
    /\ UNCHANGED <<server, variants>>

\* createMeeting(title, description, scheduledTime, isPrivate)
createMeeting(sender, title, isPrivate) ==
    /\ Sent
    /\ meetingCount < MaxMeetingId
    /\ meetingCount' = meetingCount + 1
    /\ meetings' = [meetings EXCEPT ![meetingCount + 1] =
            [id |-> meetingCount + 1, creator |-> sender, title |-> title,
             \* block.timestamp: one block per transaction, one time unit per block
             description |-> "", creationTime |-> nCalls + 1,
             scheduledTime |-> 0, isPrivate |-> isPrivate,
             participants |-> Append(@.participants, sender)]]
    /\ meetingParticipants' =
            [meetingParticipants EXCEPT ![meetingCount + 1] = Append(@, sender)]
    /\ tx' = Tx("createMeeting", sender, meetingCount + 1, ZeroAddress, "ok",
                "MeetingCreated")
    /\ UNCHANGED owner

\* addParticipant without the creator check.
addParticipantAnyone(sender, meetingId, participant) ==
    /\ Sent
    /\ IF isParticipant(meetingId, participant)
       THEN Revert("addParticipant", sender, meetingId, participant,
                   "Already a participant")
       ELSE PushParticipant("addParticipant", sender, meetingId, participant)

\* addParticipant(meetingId, participant)
addParticipant(sender, meetingId, participant) ==
    /\ Sent
    /\ IF sender # meetings[meetingId].creator
       THEN Revert("addParticipant", sender, meetingId, participant,
                   "Only creator can add participants")
       ELSE IF isParticipant(meetingId, participant)
       THEN Revert("addParticipant", sender, meetingId, participant,
                   "Already a participant")
       ELSE PushParticipant("addParticipant", sender, meetingId, participant)

\* The index removeParticipant's loop stops at: the first place of the
\* participant, or the length of the array (counted from 0, as in the code)
IndexOf(parts, participant) ==
    IF \E i \in 1 .. Len(parts) : parts[i] = participant
    THEN (CHOOSE i \in 1 .. Len(parts) :
            /\ parts[i] = participant
            /\ \A j \in 1 .. i - 1 : parts[j] # participant) - 1
    ELSE Len(parts)

\* removeParticipant(meetingId, participant)
removeParticipant(sender, meetingId, participant) ==
    /\ Sent
    /\ IF sender # meetings[meetingId].creator
       THEN Revert("removeParticipant", sender, meetingId, participant,
                   "Only creator can remove participants")
       ELSE IF ~(IndexOf(meetings[meetingId].participants, participant)
                    < Len(meetings[meetingId].participants))
       THEN Revert("removeParticipant", sender, meetingId, participant,
                   "Participant not found")
       ELSE \* m.participants[index] = m.participants[length - 1]; m.participants.pop()
            /\ LET parts == meetings[meetingId].participants
               IN  meetings' = [meetings EXCEPT ![meetingId].participants =
                       SubSeq([parts EXCEPT ![IndexOf(parts, participant) + 1] =
                                  parts[Len(parts)]],
                              1, Len(parts) - 1)]
            /\ tx' = Tx("removeParticipant", sender, meetingId, participant, "ok",
                        "ParticipantRemoved")
            /\ UNCHANGED <<owner, meetingCount, meetingParticipants>>

\* joinMeeting(meetingId)
joinMeeting(sender, meetingId) ==
    /\ Sent
    /\ IF meetings[meetingId].isPrivate
       THEN Revert("joinMeeting", sender, meetingId, sender, "This meeting is private")
       ELSE IF isParticipant(meetingId, sender)
       THEN Revert("joinMeeting", sender, meetingId, sender, "Already a participant")
       ELSE PushParticipant("joinMeeting", sender, meetingId, sender)

\* ------------------------------------ the delayed-delete server (backend)
\* src/backend/server.js keeps rooms: Map roomId -> room with participants
\* (a Map keyed by socket id, here its key set), createdAt and isActive;
\* participants: Map socket id -> its room; and on each socket the property
\* roomId.  Its pending setTimeout callbacks are kept with the socket their
\* closure holds, the time they are due, and the room whose last participant
\* left when they were set.
GracePeriod == 300000
CleanupInterval == 300000
IdleLimit == 3600000

Guests == {1, 2}

\* handleLeaveRoom(socket)
handleLeaveRoom(b, s) ==
    LET roomId == b.roomId[s]
    IN  IF roomId = NoRoom THEN b
        ELSE IF ~Has(b.rooms, roomId) THEN b
        ELSE IF s \notin b.rooms[roomId].participants THEN b
        ELSE LET left == b.rooms[roomId].participants \ {s}
                 room == [b.rooms[roomId] EXCEPT
                             !.participants = left,
                             !.isActive = IF left = {} THEN FALSE ELSE @]
             IN  [b EXCEPT
                     !.rooms = Put(@, roomId, room),
                     !.participants = Del(@, s),
                     !.timeouts = IF left = {}
                                  THEN @ \cup {[socket |-> s, due |-> b.now + GracePeriod,
                                                room |-> roomId]}
                                  ELSE @,
                     !.roomId = [@ EXCEPT ![s] = NoRoom]]

\* ---------------------------------- the WebSocket server (frontend/backend)
\* src/frontend/backend/server.js keeps rooms: Map roomId -> room, here the
\* sequence of its entries in insertion order, each with its id, participants
\* (a Map keyed by client id, here the sequence of its keys in insertion
\* order) and messages (each with its id and senderId); and clients: Map
\* clientId -> ws, here its key set with the readyState of each ws.  errored
\* tells which sockets had their 'error' event, nextId is the next value of
\* uuidv4(), nMessages counts the messages handled and sent holds the send
\* calls of the last step.
HistoryCap == 50

Clients == {1, 2, 3}

\* rooms.has(roomId) is RoomIndex(rs, roomId) # 0, and rooms.get(roomId) is
\* the entry at that index
RoomIndex(rs, roomId) ==
    IF \E i \in 1..Len(rs) : rs[i].id = roomId
    THEN CHOOSE i \in 1..Len(rs) : rs[i].id = roomId
    ELSE 0
Range(s) == {s[i] : i \in 1..Len(s)}

\* broadcastToRoom(roomId, message, excludeClientId): the sends it makes,
\* each with the client whose socket it is sent on
broadcastToRoom(w, roomId, type, about, excludeClientId) ==
    IF RoomIndex(w.rooms, roomId) = 0 THEN <<>>
    ELSE LET receivers ==
                 SelectSeq(w.rooms[RoomIndex(w.rooms, roomId)].participants,
                           LAMBDA p : /\ p # excludeClientId
                                      /\ p \in w.clients
                                      /\ w.readyState[p] = "OPEN")
         IN  [i \in 1..Len(receivers) |->
                 [to |-> receivers[i], type |-> type, room |-> roomId, about |-> about,
                  messages |-> <<>>]]

\* The leave that keeps a room without participants.
wsHandleLeaveRoomKeepsRoom(w, clientId, roomId) ==
    IF RoomIndex(w.rooms, roomId) = 0 THEN w
    ELSE IF clientId \notin Range(w.rooms[RoomIndex(w.rooms, roomId)].participants) THEN w
    ELSE LET i == RoomIndex(w.rooms, roomId)
             w1 == [w EXCEPT !.rooms[i].participants =
                                 SelectSeq(@, LAMBDA p : p # clientId)]
         IN  [w1 EXCEPT !.sent = @ \o broadcastToRoom(w1, roomId, "participant-left",
                                                       clientId, 0)]

\* handleLeaveRoom(clientId, roomId)
wsHandleLeaveRoom(w, clientId, roomId) ==
    IF RoomIndex(w.rooms, roomId) = 0 THEN w
    ELSE IF clientId \notin Range(w.rooms[RoomIndex(w.rooms, roomId)].participants) THEN w
    ELSE LET i == RoomIndex(w.rooms, roomId)
             w1 == [w EXCEPT !.rooms[i].participants =
                                 SelectSeq(@, LAMBDA p : p # clientId)]
             w2 == [w1 EXCEPT !.sent = @ \o broadcastToRoom(w1, roomId, "participant-left",
                                                             clientId, 0)]
         IN  IF w2.rooms[i].participants = <<>>
             THEN [w2 EXCEPT !.rooms = SelectSeq(@, LAMBDA room : room.id # roomId)]
             ELSE w2

\* The loop of handleClientDisconnect over the entries of rooms that are
\* left to visit, in insertion order
RECURSIVE LeaveAll(_, _, _)
LeaveAll(w, clientId, ids) ==
    IF ids = <<>> THEN w
    ELSE LeaveAll(IF /\ RoomIndex(w.rooms, Head(ids)) # 0
                     /\ clientId \in Range(w.rooms[RoomIndex(w.rooms, Head(ids))].participants)
                  THEN wsHandleLeaveRoom(w, clientId, Head(ids))
                  ELSE w,
                  clientId, Tail(ids))

\* handleClientDisconnect(clientId)
handleClientDisconnect(w, clientId) ==
    LET w1 == LeaveAll(w, clientId, [i \in 1..Len(w.rooms) |-> w.rooms[i].id])
    IN  [w1 EXCEPT !.clients = @ \ {clientId}]

\* The two other server variants as they start: backend/server.js with
\* empty maps, frontend/backend/server.js with the hall, clients 1 and 2 in
\* it and 49 messages so far
Started ==
    /\ backend = [rooms |-> EmptyMap,
                  participants |-> EmptyMap,
                  roomId |-> [s \in Guests |-> NoRoom],
                  connected |-> [s \in Guests |-> TRUE],
                  timeouts |-> {},
                  now |-> 0]
    /\ wsServer = [rooms |-> <<[id |-> Hall, participants |-> <<1, 2>>,
                               messages |-> [i \in 1..(HistoryCap - 1) |->
                                                [id |-> i, senderId |-> 1]]]>>,
                   clients |-> Clients,
                   readyState |-> [c \in Clients |-> "OPEN"],
                   errored |-> [c \in Clients |-> FALSE],
                   nextId |-> HistoryCap,
                   nMessages |-> 0,
                   sent |-> <<>>]

\* ------------------------------------------------------------------- Init
\* The server has been up for two hours.  When it came up every connection
\* connected, connection 1 created Hall and the Crowd joined it one after
\* the other; nothing else has happened, so Hall is as old as the sweep's
\* threshold allows and the rate-limit entries of those joins are gone.
HallSeq ==
    <<[id |-> 1, isHost |-> TRUE]>> \o
    [i \in 1..(maxParticipants - 2) |-> [id |-> 100 + i, isHost |-> FALSE]]

InHall == Crowd \cup {1}

\* Each of them sent its offers to those who were in Hall before it, who
\* created their side on user-joined.  The peer connections between two
\* connections of the Crowd are left out: no event about a connection of the
\* Crowd is ever emitted, so they stay as they are.
HallPeers ==
    {PeerConn(HallSeq[ij[1]].id, HallSeq[ij[2]].id, ij[2] < ij[1]) :
        ij \in {x \in (1..Len(HallSeq)) \X (1..Len(HallSeq)) :
                   x[1] # x[2] /\ (HallSeq[x[1]].id \in Active \/ HallSeq[x[2]].id \in Active)}}

Init ==
    /\ conn = [s \in Sockets |-> "open"]
    /\ users = [s \in Sockets |-> [currentRoom |-> IF s \in InHall THEN Hall ELSE NoRoom]]
    /\ rooms = Put(EmptyMap, Hall,
                   [participants |-> HallSeq, host |-> 1, lastActivity |-> 0])
    /\ roomLocks = EmptyMap
    /\ rateLimitMap = EmptyMap
    /\ subs = [s \in Sockets |-> IF s \in InHall THEN {Hall} ELSE {}]
    /\ now = inactiveThreshold
    /\ tasks = EmptyMap
    /\ queue = <<>>
    /\ waiting = <<>>
    /\ burst = {}
    /\ nEvents = 0
    /\ nSweeps = 0
    /\ out = <<>>
    /\ peers = HallPeers
    /\ Deployed
    /\ Started

\* ---------------------------------------------------------------- actions
\* An event can be dispatched when the runtime has no continuation to run,
\* or right after another event of the same batch.
CanDispatch(sock) == queue = <<>> \/ sock \in burst

\* The batch goes on while continuations are pending.
Batch(sock, q) == IF q # <<>> THEN {sock} ELSE {}

\* The join-error emitted before the lock is taken
Reject(sock, code) ==
    /\ out' = <<JoinError(Cur, sock, code)>>
    /\ burst' = Batch(sock, queue)
    /\ UNCHANGED <<conn, users, rooms, roomLocks, subs, tasks, queue, waiting, peers>>

\* socket.on('join-room'), up to the handler's first await
JoinRoom(sock, data) ==
    /\ conn[sock] = "open"
    /\ CanDispatch(sock)
    /\ nEvents < MaxEvents
    /\ nEvents' = nEvents + 1
    /\ UNCHANGED <<now, nSweeps>>
    /\ UNCHANGED <<chain, variants>>
    /\ IF ~checkRateLimit(sock)
       THEN /\ Reject(sock, "RATE_LIMITED")
            /\ UNCHANGED rateLimitMap
       ELSE /\ rateLimitMap' = Put(rateLimitMap, sock, Append(RecentActions(sock), now))
            /\ IF ~Truthy(data) \/ data.t # "object"
               THEN Reject(sock, "INVALID_DATA")
               ELSE IF ~validateRoomId(Get(data, "roomId")).isValid
               THEN Reject(sock, "INVALID_ROOM_ID")
               ELSE IF ~validateUserInfo(Get(data, "userInfo")).isValid
               THEN Reject(sock, "INVALID_USER_INFO")
               ELSE LET tid == nEvents + 1
                        st == [Cur EXCEPT !.tasks =
                                 Put(@, tid, NewTask(sock, "join", Get(data, "roomId").v))]
                        st2 == withRoomLock(st, tid)
                    IN  /\ Commit(st2)
                        /\ burst' = Batch(sock, st2.queue)

\* socket.on('leave-room'), up to leaveCurrentRoom's first await
LeaveRoom(sock) ==
    /\ conn[sock] = "open"
    /\ CanDispatch(sock)
    /\ nEvents < MaxEvents
    /\ nEvents' = nEvents + 1
    /\ LET tid == nEvents + 1
           st == [Cur EXCEPT !.tasks = Put(@, tid, NewTask(sock, "leave", NoRoom)),
                             !.peers = leaveRoom(@, sock)]
           st2 == leaveCurrentRoom(st, tid)
       IN  /\ Commit(st2)
           /\ burst' = Batch(sock, st2.queue)
    /\ UNCHANGED <<rateLimitMap, now, nSweeps>>
    /\ UNCHANGED <<chain, variants>>

\* socket.on('disconnect').  The transport has closed the socket and taken
\* it off every channel before the handler runs.
Disconnect(sock) ==
    /\ conn[sock] = "open"
    /\ queue = <<>>
    /\ nEvents < MaxEvents
    /\ nEvents' = nEvents + 1
    /\ LET tid == nEvents + 1
           st == [Cur EXCEPT !.conn = [@ EXCEPT ![sock] = "closed"],
                             !.subs = [@ EXCEPT ![sock] = {}],
                             !.tasks = Put(@, tid, NewTask(sock, "disconnect", NoRoom))]
           st2 == leaveCurrentRoom(st, tid)
           st3 == [st2 EXCEPT !.users = Del(@, sock)]
       IN  /\ Commit(st3)
           /\ burst' = {}
    /\ rateLimitMap' = Del(rateLimitMap, sock)
    /\ UNCHANGED <<now, nSweeps>>
    /\ UNCHANGED <<chain, variants>>

\* The runtime takes the next continuation off its queue.
Next1(pc) ==
    /\ queue # <<>>
    /\ tasks[Head(queue)].pc = pc
    /\ burst' = {}
    /\ UNCHANGED <<rateLimitMap, now, nEvents, nSweeps>>
    /\ UNCHANGED <<chain, variants>>

Popped == [Cur EXCEPT !.queue = Tail(@)]

\* withRoomLock (join) resumes after `await roomLocks.get(roomId)`
RunWAcq ==
    /\ Next1("W_acq")
    /\ Commit(AcquireJoinLock(Popped, Head(queue)))

\* withRoomLock (leave) resumes after `await roomLocks.get(roomId)`
RunLAcq ==
    /\ Next1("L_acq")
    /\ Commit(AcquireLeaveLock(Popped, Head(queue)))

\* withRoomLock (leave) resumes after `await operation()`: the finally block
RunLRel ==
    /\ Next1("L_rel")
    /\ LET tid == Head(queue)
       IN  Commit(Resume(Release(Popped, tasks[tid].lroom, LockOf(tid, "L")), tid, "L_ret"))

\* leaveCurrentRoom resumes after `await withRoomLock(...)` and returns
RunLRet ==
    /\ Next1("L_ret")
    /\ Commit(LeaveReturned(Popped, Head(queue)))

\* the join operation resumes after `await leaveCurrentRoom(socket)`
RunOpJoin ==
    /\ Next1("op_join")
    /\ LET tid == Head(queue)
       IN  Commit(Resume(JoinOp(Popped, tasks[tid].sock, tasks[tid].room), tid, "W_rel"))

\* withRoomLock (join) resumes after `await operation()`: the finally block
RunWRel ==
    /\ Next1("W_rel")
    /\ LET tid == Head(queue)
       IN  Commit(Resume(Release(Popped, tasks[tid].room, LockOf(tid, "W")), tid, "H_ret"))

\* the join-room handler resumes after `await withRoomLock(...)` and ends
RunHRet ==
    /\ Next1("H_ret")
    /\ Commit([Popped EXCEPT !.tasks = Del(@, Head(queue))])

\* The sweep sparing every room that still has participants.
SweptUnlessOccupied(rs, t) ==
    [r \in {x \in DOMAIN rs : ~(t - rs[x].lastActivity > inactiveThreshold)
                                \/ Len(rs[x].participants) > 0} |-> rs[r]]

\* The rooms the sweep keeps at time t
Swept(rs, t) ==
    [r \in {x \in DOMAIN rs : ~(t - rs[x].lastActivity > inactiveThreshold)} |-> rs[r]]

\* Thirty minutes pass with no event.  The one-minute timer has dropped
\* every rate-limit entry older than a minute, and the sweep timer fires.
Timers ==
    /\ queue = <<>>
    /\ nSweeps < MaxSweeps
    /\ nSweeps' = nSweeps + 1
    /\ now' = now + SweepInterval
    /\ rateLimitMap' = EmptyMap
    /\ rooms' = Swept(rooms, now + SweepInterval)
    /\ out' = <<>>
    /\ burst' = {}
    /\ UNCHANGED <<conn, users, roomLocks, subs, tasks, queue, waiting, nEvents, peers>>
    /\ UNCHANGED <<chain, variants>>

Next ==
    \/ \E sock \in Active,
          data \in GoodData \cup NonObjectData \cup BadRoomData \cup BadUserData :
              JoinRoom(sock, data)
    \/ \E sock \in Active : LeaveRoom(sock)
    \/ \E sock \in Active : Disconnect(sock)
    \/ RunWAcq
    \/ RunLAcq
    \/ RunLRel
    \/ RunLRet
    \/ RunOpJoin
    \/ RunWRel
    \/ RunHRet
    \/ Timers

Spec == Init /\ [][Next]_vars

\* ------------------------------------------------- relay and chat handlers
\* A socket id as a JavaScript value (a string naming no room)
Sid(n) == [t |-> "id", v |-> n]
Sdp == Obj([type |-> Str(<<"s", "d", "p">>)])

\* offer / answer / ice-candidate payloads; field is the name the handler
\* reads its second property under.  targetId is whatever string the client
\* sends: the id of a connection, or a string that is the name of a room.
RelayData(field) ==
    {Undef}
    \cup {Obj(Put([targetId |-> x[1], roomId |-> Str(x[2])], field, Sdp)) :
             x \in {Sid(2), Sid(101), Str(Hall)} \X RoomIds}
    \cup {Obj(Put([targetId |-> Undef, roomId |-> Str(Hall)], field, Sdp)),
          Obj(Put([targetId |-> Sid(2), roomId |-> Str(Hall)], field, Undef)),
          Obj(Put([targetId |-> Sid(2), roomId |-> Undef], field, Sdp))}

OfferData == RelayData("offer")
AnswerData == RelayData("answer")
CandidateData == RelayData("candidate")

\* `user.currentRoom !== roomId` is false: the sender is registered and its
\* currentRoom is the room the message names
InRoomOf(st, sock, roomId) ==
    /\ Has(st.users, sock)
    /\ roomId.t = "string"
    /\ st.users[sock].currentRoom = roomId.v

\* socket.to(targetId).emit(...): the channel named targetId, which is the
\* private channel of a connection or a room's channel, except the emitter
ToTarget(st, targetId, sock) ==
    IF targetId.t = "id" THEN ToSocket(st, targetId.v) \ {sock}
    ELSE ToRoomExcept(st, targetId.v, sock)

\* The relay without the membership check.
RelayedUnchecked(st, ev, field, sock, data) ==
    IF ~Truthy(data) \/ data.t # "object" THEN <<>>
    ELSE IF ~Truthy(Get(data, "targetId")) \/ ~Truthy(Get(data, field))
            \/ ~Truthy(Get(data, "roomId")) THEN <<>>
    ELSE <<Put(Ev(ev, sock, ToTarget(st, Get(data, "targetId"), sock),
                  Get(data, "roomId").v, sock, 0, <<>>, ""),
               "payload", Get(data, field))>>

\* What the offer, answer and ice-candidate handlers emit: the event with
\* fromId (id), roomId (room) and the payload as received
Relayed(st, ev, field, sock, data) ==
    IF ~Truthy(data) \/ data.t # "object" THEN <<>>
    ELSE IF ~Truthy(Get(data, "targetId")) \/ ~Truthy(Get(data, field))
            \/ ~Truthy(Get(data, "roomId")) THEN <<>>
    ELSE IF ~InRoomOf(st, sock, Get(data, "roomId")) THEN <<>>
    ELSE <<Put(Ev(ev, sock, ToTarget(st, Get(data, "targetId"), sock),
                  Get(data, "roomId").v, sock, 0, <<>>, ""),
               "payload", Get(data, field))>>

\* A handler that has no await: it runs in one piece and only emits.
Handled(sock, emits) ==
    /\ conn[sock] = "open"
    /\ CanDispatch(sock)
    /\ nEvents < MaxEvents
    /\ nEvents' = nEvents + 1
    /\ out' = emits
    /\ peers' = Deliver(peers, emits)
    /\ burst' = Batch(sock, queue)
    /\ UNCHANGED <<conn, users, rooms, roomLocks, rateLimitMap, subs, now, tasks,
                   queue, waiting, nSweeps>>
    /\ UNCHANGED <<chain, variants>>

\* socket.on('offer')
Offer(sock, data) == Handled(sock, Relayed(Cur, "offer", "offer", sock, data))
\* socket.on('answer')
Answer(sock, data) == Handled(sock, Relayed(Cur, "answer", "answer", sock, data))
\* socket.on('ice-candidate')
IceCandidate(sock, data) ==
    Handled(sock, Relayed(Cur, "ice-candidate", "candidate", sock, data))

\* String.prototype.trim: the white space it strips (of which the model's
\* messages use these three)
WhiteSpace == {" ", "\t", "\n"}

Trim(s) ==
    IF \A i \in 1..Len(s) : s[i] \in WhiteSpace THEN <<>>
    ELSE SubSeq(s,
           CHOOSE i \in 1..Len(s) :
               s[i] \notin WhiteSpace /\ \A j \in 1..(i - 1) : s[j] \in WhiteSpace,
           CHOOSE i \in 1..Len(s) :
               s[i] \notin WhiteSpace /\ \A j \in (i + 1)..Len(s) : s[j] \in WhiteSpace)

\* s.substring(0, n)
Substring0(s, n) == SubSeq(s, 1, IF Len(s) < n THEN Len(s) ELSE n)

\* The sanitizing with the cut made first.
SanitizeCutFirst(message) == Trim(Substring0(message, MaxMessageLen))

\* `message.trim().substring(0, 1000)`
Sanitize(message) == Substring0(Trim(message), MaxMessageLen)

Hi == <<"h", "i">>
PaddedHi == <<" ", "\t">> \o Hi \o <<" ", "\n">>
LongText == <<" ">> \o Rep("a", MaxMessageLen - 1) \o <<" ", "b", " ">>

\* chat-message payloads
ChatData ==
    {Undef}
    \cup {Obj([roomId |-> Str(x[1]), message |-> Str(x[2])]) :
             x \in RoomIds \X {PaddedHi, LongText}}
    \cup {Obj([roomId |-> Str(Hall), message |-> m]) :
             m \in {Str(<<" ", "\t">>), Str(<<>>), Num(7), Undef}}
    \cup {Obj([roomId |-> Undef, message |-> Str(Hi)])}

\* io.to(roomId).emit(...): every subscriber of the channel
ToRoom(st, roomId) == {x \in Sockets : roomId \in st.subs[x]}

\* What the chat-message handler emits.  uuidv4() is a value no earlier call
\* returned: the n-th handler invocation draws the n-th one.
Chat(st, sock, data) ==
    IF ~Truthy(data) \/ data.t # "object" THEN <<>>
    ELSE IF ~Truthy(Get(data, "roomId")) \/ ~Truthy(Get(data, "message"))
            \/ Get(data, "message").t # "string" THEN <<>>
    ELSE LET sanitizedMessage == Sanitize(Get(data, "message").v)
         IN  IF Len(sanitizedMessage) = 0 THEN <<>>
             ELSE IF ~InRoomOf(st, sock, Get(data, "roomId")) THEN <<>>
             ELSE <<[ev |-> "chat-message", src |-> sock,
                     to |-> ToRoom(st, Get(data, "roomId").v),
                     room |-> Get(data, "roomId").v, id |-> nEvents + 1, count |-> 0,
                     list |-> <<>>, code |-> "", message |-> sanitizedMessage,
                     fromId |-> sock, timestamp |-> now]>>

\* socket.on('chat-message')
ChatMessage(sock, data) == Handled(sock, Chat(Cur, sock, data))

\* The server with its relay handlers
NextRelay ==
    \/ \E sock \in Active, data \in GoodData : JoinRoom(sock, data)
    \/ \E sock \in Active : LeaveRoom(sock)
    \/ RunWAcq
    \/ RunLAcq
    \/ RunLRel
    \/ RunLRet
    \/ RunOpJoin
    \/ RunWRel
    \/ RunHRet
    \/ \E sock \in Active, data \in OfferData : Offer(sock, data)
    \/ \E sock \in Active, data \in AnswerData : Answer(sock, data)
    \/ \E sock \in Active, data \in CandidateData : IceCandidate(sock, data)

SpecRelay == Init /\ [][NextRelay]_vars

\* The server with its chat handler
NextChat ==
    \/ \E sock \in Active, data \in GoodData : JoinRoom(sock, data)
    \/ \E sock \in Active : LeaveRoom(sock)
    \/ RunWAcq
    \/ RunLAcq
    \/ RunLRel
    \/ RunLRet
    \/ RunOpJoin
    \/ RunWRel
    \/ RunHRet
    \/ \E sock \in Active, data \in ChatData : ChatMessage(sock, data)

SpecChat == Init /\ [][NextChat]_vars

\* ------------------------------------------- media and screen-share handlers
MediaState == Obj([audio |-> Str(<<"o", "n">>)])

\* media-state-update payloads
MediaData ==
    {Undef}
    \cup {Obj([roomId |-> Str(r), mediaState |-> MediaState]) : r \in RoomIds}
    \cup {Obj([roomId |-> Str(Hall), mediaState |-> m]) : m \in {Undef, Str(<<"o", "n">>)}}
    \cup {Obj([roomId |-> Undef, mediaState |-> MediaState])}

\* start-screen-share / stop-screen-share payloads
ShareData ==
    {Undef} \cup {Obj([roomId |-> x]) : x \in {Str(RM1), Str(Hall), Str(<<>>), Null, Undef}}

\* `user.currentRoom !== roomId` is false, for a roomId that was not tested
\* for truthiness: currentRoom is null or a room id.
SameRoom(st, sock, roomId) ==
    /\ Has(st.users, sock)
    /\ IF st.users[sock].currentRoom = NoRoom THEN roomId.t = "null"
       ELSE roomId.t = "string" /\ roomId.v = st.users[sock].currentRoom

\* The media-state-update handler without the membership check.
MediaUpdateUnchecked(st, sock, data) ==
    IF ~Truthy(data) \/ data.t # "object" THEN <<>>
    ELSE IF ~Truthy(Get(data, "roomId")) \/ ~Truthy(Get(data, "mediaState"))
            \/ Get(data, "mediaState").t # "object" THEN <<>>
    ELSE <<Put(Ev("participant-media-update", sock,
                  ToRoomExcept(st, Get(data, "roomId").v, sock),
                  Get(data, "roomId").v, sock, 0, <<>>, ""),
               "payload", Get(data, "mediaState"))>>

\* What the media-state-update handler emits: the event with participantId
\* (id) and the media state as received, to the room's channel
MediaUpdate(st, sock, data) ==
    IF ~Truthy(data) \/ data.t # "object" THEN <<>>
    ELSE IF ~Truthy(Get(data, "roomId")) \/ ~Truthy(Get(data, "mediaState"))
            \/ Get(data, "mediaState").t # "object" THEN <<>>
    ELSE IF ~InRoomOf(st, sock, Get(data, "roomId")) THEN <<>>
    ELSE <<Put(Ev("participant-media-update", sock,
                  ToRoomExcept(st, Get(data, "roomId").v, sock),
                  Get(data, "roomId").v, sock, 0, <<>>, ""),
               "payload", Get(data, "mediaState"))>>

\* What the start-screen-share and stop-screen-share handlers emit
ScreenShare(st, ev, sock, data) ==
    IF ~Truthy(data) \/ data.t # "object" THEN <<>>
    ELSE IF ~SameRoom(st, sock, Get(data, "roomId")) THEN <<>>
    ELSE <<Ev(ev, sock, ToRoomExcept(st, Get(data, "roomId").v, sock),
              Get(data, "roomId").v, sock, 0, <<>>, "")>>

\* socket.on('media-state-update')
MediaStateUpdate(sock, data) == Handled(sock, MediaUpdate(Cur, sock, data))
\* socket.on('start-screen-share')
StartScreenShare(sock, data) ==
    Handled(sock, ScreenShare(Cur, "participant-screen-share-start", sock, data))
\* socket.on('stop-screen-share')
StopScreenShare(sock, data) ==
    Handled(sock, ScreenShare(Cur, "participant-screen-share-stop", sock, data))

\* The server with its media and screen-share handlers
NextMedia ==
    \/ \E sock \in Active, data \in GoodData : JoinRoom(sock, data)
    \/ \E sock \in Active : LeaveRoom(sock)
    \/ \E sock \in Active : Disconnect(sock)
    \/ RunWAcq
    \/ RunLAcq
    \/ RunLRel
    \/ RunLRet
    \/ RunOpJoin
    \/ RunWRel
    \/ RunHRet
    \/ \E sock \in Active, data \in MediaData : MediaStateUpdate(sock, data)
    \/ \E sock \in Active, data \in ShareData : StartScreenShare(sock, data)
    \/ \E sock \in Active, data \in ShareData : StopScreenShare(sock, data)

SpecMedia == Init /\ [][NextMedia]_vars

\* The server with its chat handler and the sweep
NextActive ==
    \/ \E sock \in Active, data \in GoodData : JoinRoom(sock, data)
    \/ \E sock \in Active : LeaveRoom(sock)
    \/ RunWAcq
    \/ RunLAcq
    \/ RunLRel
    \/ RunLRet
    \/ RunOpJoin
    \/ RunWRel
    \/ RunHRet
    \/ \E sock \in Active, data \in ChatData : ChatMessage(sock, data)
    \/ Timers

SpecActive == Init /\ [][NextActive]_vars

\* ------------------------------------------------------ malformed messages
\* The payloads sent to each handler: those that are no object with
\* properties (undefined, null, a string, a number, an object or array
\* without any property), those that lack a property, and one that is
\* complete
Inbound ==
    LET junk == {Undef, Null, Str(<<"x">>), Num(7), Obj(<<>>)}
        relay(field) ==
            {d \in RelayData(field) :
                /\ d.t = "object"
                /\ Get(d, "targetId") \in {Undef, Sid(2)}
                /\ Get(d, "roomId") \in {Undef, Str(Hall)}}
    IN  [offer |-> relay("offer") \cup junk,
         answer |-> relay("answer") \cup junk,
         candidate |-> relay("candidate") \cup junk,
         media |-> {d \in MediaData : Get(d, "roomId") \in {Undef, Str(Hall)}} \cup junk,
         chat |-> {d \in ChatData : /\ Get(d, "roomId") \in {Undef, Str(Hall)}
                                    /\ Get(d, "message") # Str(LongText)} \cup junk,
         share |-> ShareData \cup junk]

\* The server with all its handlers that have no await
NextMalformed ==
    \/ \E sock \in {1, 2}, data \in GoodData : JoinRoom(sock, data)
    \/ \E sock \in {1, 2} : LeaveRoom(sock)
    \/ RunWAcq
    \/ RunLAcq
    \/ RunLRel
    \/ RunLRet
    \/ RunOpJoin
    \/ RunWRel
    \/ RunHRet
    \/ \E sock \in {1, 2}, data \in Inbound.offer : Offer(sock, data)
    \/ \E sock \in {1, 2}, data \in Inbound.answer : Answer(sock, data)
    \/ \E sock \in {1, 2}, data \in Inbound.candidate : IceCandidate(sock, data)
    \/ \E sock \in {1, 2}, data \in Inbound.media : MediaStateUpdate(sock, data)
    \/ \E sock \in {1, 2}, data \in Inbound.chat : ChatMessage(sock, data)
    \/ \E sock \in {1, 2}, data \in Inbound.share : StartScreenShare(sock, data)
    \/ \E sock \in {1, 2}, data \in Inbound.share : StopScreenShare(sock, data)

SpecMalformed == Init /\ [][NextMalformed]_vars

\* A second starting point, one minute of traffic later in the same run up
\* to Init: connection 3 has just created rm1, after sending 28 join-room
\* requests that passed the rate limiter and failed validation.  One more
\* request of connection 3 is admitted before the limiter closes.
BusyConn == 3

InitBusy ==
    /\ conn = [s \in Sockets |-> "open"]
    /\ users = [s \in Sockets |->
                  [currentRoom |-> IF s \in InHall THEN Hall
                                   ELSE IF s = BusyConn THEN RM1 ELSE NoRoom]]
    /\ rooms = Put(Put(EmptyMap, Hall,
                        [participants |-> HallSeq, host |-> 1, lastActivity |-> 0]),
                    RM1,
                    [participants |-> <<[id |-> BusyConn, isHost |-> TRUE]>>,
                     host |-> BusyConn, lastActivity |-> inactiveThreshold])
    /\ roomLocks = EmptyMap
    /\ rateLimitMap = Put(EmptyMap, BusyConn, Rep(inactiveThreshold, RateMax - 1))
    /\ subs = [s \in Sockets |-> IF s \in InHall THEN {Hall}
                                  ELSE IF s = BusyConn THEN {RM1} ELSE {}]
    /\ now = inactiveThreshold
    /\ tasks = EmptyMap
    /\ queue = <<>>
    /\ waiting = <<>>
    /\ burst = {}
    /\ nEvents = 0
    /\ nSweeps = 0
    /\ out = <<>>
    /\ peers = HallPeers
    /\ Deployed
    /\ Started

SpecBusy == InitBusy /\ [][Next]_vars

\* ------------------------------------------------- the rate limiter in time
\* A third starting point, at the same moment as Init: within the last
\* minute connection 3 has sent 29 join-room requests that passed the rate
\* limiter and failed validation, the first of them one millisecond short of
\* a minute ago and the others just now.
InitRate ==
    /\ conn = [s \in Sockets |-> "open"]
    /\ users = [s \in Sockets |-> [currentRoom |-> IF s \in InHall THEN Hall ELSE NoRoom]]
    /\ rooms = Put(EmptyMap, Hall,
                   [participants |-> HallSeq, host |-> 1, lastActivity |-> 0])
    /\ roomLocks = EmptyMap
    /\ rateLimitMap = Put(EmptyMap, BusyConn,
                          <<inactiveThreshold - (RateWindow - 1)>>
                              \o Rep(inactiveThreshold, RateMax - 2))
    /\ subs = [s \in Sockets |-> IF s \in InHall THEN {Hall} ELSE {}]
    /\ now = inactiveThreshold
    /\ tasks = EmptyMap
    /\ queue = <<>>
    /\ waiting = <<>>
    /\ burst = {}
    /\ nEvents = 0
    /\ nSweeps = 0
    /\ out = <<>>
    /\ peers = HallPeers
    /\ Deployed
    /\ Started

\* Time passes with no event, up to a later moment t.
Pass(t) ==
    /\ queue = <<>>
    /\ t > now
    /\ now' = t
    /\ out' = <<>>
    /\ burst' = {}
    /\ UNCHANGED <<conn, users, rooms, roomLocks, rateLimitMap, subs, tasks, queue,
                   waiting, nEvents, nSweeps, peers>>
    /\ UNCHANGED <<chain, variants>>

\* The one-minute timer of the rate-limit map fires: it leaves the
\* timestamps of the last minute, and no entry without any.
RateCleanup ==
    /\ queue = <<>>
    /\ rateLimitMap' =
          [s \in {x \in DOMAIN rateLimitMap :
                     \E i \in 1..Len(rateLimitMap[x]) : now - rateLimitMap[x][i] < RateWindow}
             |-> SelectSeq(rateLimitMap[s], LAMBDA time : now - time < RateWindow)]
    /\ rateLimitMap' # rateLimitMap
    /\ out' = <<>>
    /\ burst' = {}
    /\ UNCHANGED <<conn, users, rooms, roomLocks, subs, now, tasks, queue, waiting,
                   nEvents, nSweeps, peers>>
    /\ UNCHANGED <<chain, variants>>

\* The busy connection sends the two valid join-room payloads or one that is
\* no object, another connection sends requests without payload, and the
\* clock is read 0, 1, 59999 or 60000 ms after InitRate.
NextRate ==
    \/ \E data \in GoodData \cup {Undef} : JoinRoom(BusyConn, data)
    \/ JoinRoom(2, Undef)
    \/ LeaveRoom(BusyConn)
    \/ Disconnect(BusyConn)
    \/ RunWAcq
    \/ RunLAcq
    \/ RunLRel
    \/ RunLRet
    \/ RunOpJoin
    \/ RunWRel
    \/ RunHRet
    \/ \E o \in {0, 1, RateWindow - 1, RateWindow} : Pass(inactiveThreshold + o)
    \/ RateCleanup

SpecRate == InitRate /\ [][NextRate]_vars

\* ------------------------------------------- the Meeting contract in use
NextMeeting ==
    \/ \E sender \in Accounts : \E title \in {"standup"} : \E isPrivate \in BOOLEAN :
            createMeeting(sender, title, isPrivate)
    \/ \E sender \in Accounts : \E meetingId \in MeetingIds : \E participant \in Accounts :
            addParticipant(sender, meetingId, participant)
    \/ \E sender \in Accounts : \E meetingId \in MeetingIds : \E participant \in Accounts :
            removeParticipant(sender, meetingId, participant)
    \/ \E sender \in Accounts : \E meetingId \in MeetingIds :
            joinMeeting(sender, meetingId)

SpecMeeting == Init /\ [][NextMeeting]_vars

\* ---------------------------------------- the delayed-delete server in use
BackendStep(b) ==
    /\ backend' = b
    /\ UNCHANGED <<server, chain, wsServer>>

\* socket.on('join-room'); roomId is NoRoom when the payload has none
BackendJoinRoom(s, roomId) ==
    /\ backend.connected[s]
    /\ IF roomId = NoRoom THEN BackendStep(backend)
       ELSE LET b1 == IF backend.roomId[s] # NoRoom THEN handleLeaveRoom(backend, s)
                      ELSE backend
                rs == IF Has(b1.rooms, roomId) THEN b1.rooms
                      ELSE Put(b1.rooms, roomId,
                               [participants |-> {}, createdAt |-> b1.now,
                                isActive |-> TRUE])
            IN  BackendStep([b1 EXCEPT
                    !.roomId = [@ EXCEPT ![s] = roomId],
                    !.rooms = Put(rs, roomId,
                                  [rs[roomId] EXCEPT !.participants = @ \cup {s}]),
                    !.participants = Put(@, s, roomId)])

\* socket.on('leave-room')
BackendLeaveRoom(s) ==
    /\ backend.connected[s]
    /\ BackendStep(handleLeaveRoom(backend, s))

\* socket.on('disconnect')
BackendDisconnect(s) ==
    /\ backend.connected[s]
    /\ LET b == handleLeaveRoom(backend, s)
       IN  BackendStep([b EXCEPT !.participants = Del(@, s),
                                 !.connected = [@ EXCEPT ![s] = FALSE]])

\* A grace timer that is due fires: the setTimeout callback of
\* handleLeaveRoom, which reads socket.roomId when it runs.
GraceTimeout(t) ==
    /\ t \in backend.timeouts
    /\ t.due <= backend.now
    /\ LET roomId == backend.roomId[t.socket]
       IN  BackendStep([backend EXCEPT
               !.rooms = IF Has(@, roomId) /\ @[roomId].participants = {}
                         THEN Del(@, roomId)
                         ELSE @,
               !.timeouts = @ \ {t}])

\* Time passes once every timer that was due has fired, and the periodic
\* cleanup runs: five minutes, or an hour in which nothing else happens.
BackendTick(d) ==
    /\ \A t \in backend.timeouts : t.due > backend.now
    /\ IF d = IdleLimit THEN backend.now < IdleLimit /\ backend.timeouts = {}
       ELSE backend.now % IdleLimit < MaxTicks * CleanupInterval
    /\ BackendStep([backend EXCEPT
           !.now = @ + d,
           !.rooms = [r \in {x \in DOMAIN @ :
                                ~(/\ ~@[x].isActive
                                  /\ @[x].participants = {}
                                  /\ backend.now + d - @[x].createdAt > IdleLimit)}
                        |-> @[r]]])

\* The timers that can be pending
Timeouts ==
    [socket : Guests,
     due : {k * CleanupInterval : k \in 1..(IdleLimit \div CleanupInterval + MaxTicks + 1)},
     room : RoomIds]

NextBackend ==
    \/ \E s \in Guests, roomId \in RoomIds \cup {NoRoom} : BackendJoinRoom(s, roomId)
    \/ \E s \in Guests : BackendLeaveRoom(s)
    \/ \E s \in Guests : BackendDisconnect(s)
    \/ \E t \in Timeouts : GraceTimeout(t)
    \/ \E d \in {CleanupInterval, IdleLimit} : BackendTick(d)

SpecBackend == Init /\ [][NextBackend]_vars

\* ----------------------------------------------- the WebSocket server in use
WsStep(w) ==
    /\ wsServer' = w
    /\ UNCHANGED <<server, chain, backend>>

\* ws.on('message') with type join-room: handleJoinRoom
WsJoinRoom(c, roomId) ==
    /\ wsServer.readyState[c] = "OPEN"
    /\ wsServer.nMessages < MaxMessages
    /\ LET w == [wsServer EXCEPT !.sent = <<>>, !.nMessages = @ + 1]
           rs == IF RoomIndex(w.rooms, roomId) # 0 THEN w.rooms
                 ELSE Append(w.rooms,
                             [id |-> roomId, participants |-> <<>>, messages |-> <<>>])
           i == RoomIndex(rs, roomId)
           w1 == [w EXCEPT !.rooms = [rs EXCEPT ![i].participants =
                                         IF c \in Range(@) THEN @ ELSE Append(@, c)]]
           all == w1.rooms[i].messages
       IN  IF c \notin w.clients THEN WsStep([w EXCEPT !.rooms = rs])
           ELSE WsStep([w1 EXCEPT !.sent =
                   <<[to |-> c, type |-> "room-joined", room |-> roomId, about |-> c,
                      \* room.messages.slice(-50)
                      messages |-> IF Len(all) <= HistoryCap THEN all
                                   ELSE SubSeq(all, Len(all) - HistoryCap + 1, Len(all))]>>
                     \o broadcastToRoom(w1, roomId, "participant-joined", c, c)])

\* ws.on('message') with type leave-room
WsLeaveRoom(c, roomId) ==
    /\ wsServer.readyState[c] = "OPEN"
    /\ wsServer.nMessages < MaxMessages
    /\ WsStep(wsHandleLeaveRoom([wsServer EXCEPT !.sent = <<>>, !.nMessages = @ + 1],
                                c, roomId))

\* ws.on('message') with type chat-message: handleChatMessage
WsChatMessage(c, roomId) ==
    /\ wsServer.readyState[c] = "OPEN"
    /\ wsServer.nMessages < MaxMessages
    /\ LET w == [wsServer EXCEPT !.sent = <<>>, !.nMessages = @ + 1]
           i == RoomIndex(w.rooms, roomId)
       IN  IF i = 0 THEN WsStep(w)
           ELSE IF c \notin Range(w.rooms[i].participants) THEN WsStep(w)
           ELSE LET w1 == [w EXCEPT
                              !.rooms[i].messages =
                                  Append(@, [id |-> w.nextId, senderId |-> c]),
                              !.nextId = @ + 1]
                IN  WsStep([w1 EXCEPT !.sent =
                               broadcastToRoom(w1, roomId, "chat-message", w.nextId, 0)])

\* The closing handshake of a socket begins: no handler runs.
WsClosing(c) ==
    /\ wsServer.readyState[c] = "OPEN"
    /\ WsStep([wsServer EXCEPT !.sent = <<>>, !.readyState[c] = "CLOSING"])

\* ws.on('close')
WsClose(c) ==
    /\ wsServer.readyState[c] # "CLOSED"
    /\ WsStep(handleClientDisconnect(
                  [wsServer EXCEPT !.sent = <<>>, !.readyState[c] = "CLOSED"], c))

\* ws.on('error'), once per socket, before or after its 'close'; a socket
\* that was open is open or closing when the handler runs.
WsError(c, state) ==
    /\ ~wsServer.errored[c]
    /\ state = wsServer.readyState[c] \/ (wsServer.readyState[c] = "OPEN" /\ state = "CLOSING")
    /\ WsStep(handleClientDisconnect(
                  [wsServer EXCEPT !.sent = <<>>, !.readyState[c] = state,
                                   !.errored[c] = TRUE], c))

NextWs ==
    \/ \E c \in Clients, roomId \in RoomIds : WsJoinRoom(c, roomId)
    \/ \E c \in Clients, roomId \in RoomIds : WsLeaveRoom(c, roomId)
    \/ \E c \in Clients, roomId \in RoomIds : WsChatMessage(c, roomId)
    \/ \E c \in Clients : WsClosing(c)
    \/ \E c \in Clients : WsClose(c)
    \/ \E c \in Clients, state \in {"OPEN", "CLOSING", "CLOSED"} : WsError(c, state)

SpecWs == Init /\ [][NextWs]_vars

\* ----------------------------------------------------------------- claims
Hosts(room) == {i \in 1..Len(room.participants) : room.participants[i].isHost}

Emitted(ev) == {i \in 1..Len(out) : out[i].ev = ev}
EmittedCode(code) == {i \in 1..Len(out) : out[i].ev = "join-error" /\ out[i].code = code}

\* C1: every room in the rooms map that has a participant has exactly one
\* participant record with isHost = TRUE, that record's id is room.host,
\* and room.host is the id of a participant of the room.
C1_OneHost ==
    \A r \in DOMAIN rooms :
        Len(rooms[r].participants) >= 1 =>
            /\ Cardinality(Hosts(rooms[r])) = 1
            /\ \A i \in Hosts(rooms[r]) : rooms[r].participants[i].id = rooms[r].host
            /\ rooms[r].host \in Ids(rooms[r].participants)

\* The host of Hall has left and the first of the others has taken over,
\* while another room has a host of its own.
C1_Witness ==
    /\ Has(rooms, Hall) /\ rooms[Hall].host = 101
    /\ Len(rooms[Hall].participants) >= 2
    /\ Has(rooms, RM1)

\* C2: between steps a room id is in the rooms map only with at least one
\* participant: no room with zero participants is ever observable.
C2_NoEmptyRoom == \A r \in DOMAIN rooms : Len(rooms[r].participants) >= 1

\* The last participant of rm1 has just left, and rm1 is gone.
C2_Witness ==
    /\ ~Has(rooms, RM1)
    /\ \E i \in Emitted("user-left") : out[i].room = RM1 /\ out[i].count = 0

\* C3: a connection that was in room R's participant list when it sent
\* join-room for R has been answered once the runtime has nothing left to
\* run: its request is not left pending without a reply.
C3_RejoinAnswered ==
    queue = <<>> => \A t \in DOMAIN tasks : ~(tasks[t].kind = "join" /\ tasks[t].member)

\* C4: once the runtime has nothing left to run, every validated join-room
\* request has completed and every room lock is free again.
C4_JoinCompletes ==
    queue = <<>> =>
        /\ \A t \in DOMAIN tasks : tasks[t].kind # "join"
        /\ DOMAIN roomLocks = {}

\* The task is inside the operation its withRoomLock frame runs for room r:
\* the operation has started and its promise is not resolved yet.
InOperation(t, r) ==
    /\ tasks[t].kind = "join"
    /\ tasks[t].room = r
    /\ tasks[t].pc \in {"L_acq", "L_rel", "L_ret", "op_join"}

\* C5: at most one operation passed to withRoomLock for a room id is
\* between its start and its completion at any time.
C5_MutualExclusion ==
    \A r \in RoomIds : Cardinality({t \in DOMAIN tasks : InOperation(t, r)}) <= 1

\* The step runs the join operation of the task at the head of the queue.
JoinOpStep == queue # <<>> /\ tasks[Head(queue)].pc = "op_join"
\* The connection and the room id of that join.
Joiner == tasks[Head(queue)].sock
Target == tasks[Head(queue)].room

RoomFullStep ==
    JoinOpStep /\ \E i \in 1..Len(out') : out'[i].code = "ROOM_FULL"

\* C6: no room ever holds more than maxParticipants participant records,
\* and a join operation answered ROOM_FULL found the room at the cap, sends
\* that one join-error to the requester and leaves the room as it was.
C6_Capacity ==
    /\ [](\A r \in DOMAIN rooms : Len(rooms[r].participants) <= maxParticipants)
    /\ [][RoomFullStep =>
            /\ Has(rooms, Target)
            /\ Len(rooms[Target].participants) >= maxParticipants
            /\ Has(rooms', Target) /\ rooms'[Target] = rooms[Target]
            /\ out' = <<JoinError(Cur, Joiner, "ROOM_FULL")>>
            /\ Joiner \in out'[1].to]_vars

\* Hall is at the cap and a join to it has just been answered ROOM_FULL.
C6_Witness ==
    /\ Has(rooms, Hall) /\ Len(rooms[Hall].participants) = maxParticipants
    /\ EmittedCode("ROOM_FULL") # {}

\* C7: when a join-room is answered ROOM_FULL, the requester is still a
\* participant of the room it was in when it sent the request, and its
\* registry currentRoom is still that room.
C7_RoomFullMutatesNothing ==
    \A i \in EmittedCode("ROOM_FULL") :
        LET t == tasks[queue[Len(queue)]]
        IN  t.from # NoRoom =>
              /\ Has(rooms, t.from)
              /\ t.sock \in Ids(rooms[t.from].participants)
              /\ Has(users, t.sock) /\ users[t.sock].currentRoom = t.from

\* The join-room payloads that fail a check made before the lock, with the
\* code each is to be answered with.
PreLockRejects ==
    {<<d, "INVALID_DATA">> : d \in NonObjectData}
    \cup {<<d, "INVALID_ROOM_ID">> : d \in BadRoomData}
    \cup {<<d, "INVALID_USER_INFO">> : d \in BadUserData}

OthersRateEntriesUnchanged(sock) ==
    \A x \in Sockets \ {sock} :
        /\ Has(rateLimitMap', x) <=> Has(rateLimitMap, x)
        /\ Has(rateLimitMap, x) => rateLimitMap'[x] = rateLimitMap[x]

\* C8: a join-room with non-object data, a bad room id or bad user info
\* emits exactly one join-error, with the code of the failed check, to the
\* requester only, and leaves the rooms, the registry, the room locks, the
\* channels, the pending handlers and every other connection's rate-limit
\* entry unchanged.
C8_PreLockReject ==
    [][\A sock \in Active : \A rej \in PreLockRejects :
          JoinRoom(sock, rej[1]) =>
              /\ out' = <<Ev("join-error", sock, {sock}, NoRoom, 0, 0, <<>>, rej[2])>>
              /\ UNCHANGED <<conn, users, rooms, roomLocks, subs, tasks, queue, waiting>>
              /\ OthersRateEntriesUnchanged(sock)]_vars

\* A request has just been rejected for its room id while another request
\* is pending and a room beside Hall exists.
C8_Witness ==
    /\ EmittedCode("INVALID_ROOM_ID") # {}
    /\ DOMAIN tasks # {}
    /\ Has(rooms, RM1)

\* C9: a connection id is in the participant list of at most one room, and
\* at most once in that list.
C9_OneRoomPerConnection ==
    \A s \in Sockets :
        /\ Cardinality({r \in DOMAIN rooms : s \in Ids(rooms[r].participants)}) <= 1
        /\ \A r \in DOMAIN rooms :
             Cardinality({i \in 1..Len(rooms[r].participants) :
                            rooms[r].participants[i].id = s}) <= 1

\* The members of the target room before the join
MembersBefore == IF Has(rooms, Target) THEN Ids(rooms[Target].participants) ELSE {}

JoinedStep == JoinOpStep /\ \E i \in 1..Len(out') : out'[i].ev = "joined-room"

Received(ev, sock) == {i \in 1..Len(out') : out'[i].ev = ev /\ sock \in out'[i].to}

\* C10: when connection A's join succeeds on a room whose participants were
\* the set S, A receives exactly one joined-room, listing exactly S; every
\* member of S receives exactly one user-joined for A; no member of S
\* receives a joined-room; and A receives no user-joined.
C10_JoinNotifications ==
    [][JoinedStep =>
         /\ Cardinality(Received("joined-room", Joiner)) = 1
         /\ \A i \in Received("joined-room", Joiner) :
              /\ Ids(out'[i].list) = MembersBefore
              /\ Len(out'[i].list) = Cardinality(MembersBefore)
         /\ \A m \in MembersBefore :
              /\ Cardinality({i \in Received("user-joined", m) : out'[i].id = Joiner}) = 1
              /\ Received("joined-room", m) = {}
         /\ Received("user-joined", Joiner) = {}]_vars

\* A client holds a peer connection to peerId for which it sends the offer.
Offers(client, peerId) == PeerConn(client, peerId, TRUE) \in peers

\* The place of a connection in a room's participant list (its join order)
JoinOrder(r, s) == CHOOSE i \in 1..Len(rooms[r].participants) : rooms[r].participants[i].id = s

\* C11: of two connected participants of a room, the two never both hold a
\* peer connection to each other that was created to send the offer, and
\* the one that holds such a connection joined the room after the other.
C11_OfferFromLaterJoiner ==
    \A r \in DOMAIN rooms :
        LET ids == Ids(rooms[r].participants)
        IN  \A p \in peers :
              (/\ p[3]
               /\ p[1] \in ids /\ p[2] \in ids
               /\ conn[p[1]] = "open" /\ conn[p[2]] = "open") =>
                  /\ ~Offers(p[2], p[1])
                  /\ JoinOrder(r, p[1]) > JoinOrder(r, p[2])

\* Connections 2 and 3 joined rm1 one right after the other: 3, the later
\* one, holds the offering side and 2 the answering side.
C11_Witness ==
    /\ Has(rooms, RM1) /\ Ids(rooms[RM1].participants) = {2, 3}
    /\ Offers(3, 2) /\ PeerConn(2, 3, FALSE) \in peers

\* In this step the host of room r, a participant of r, is removed from r
\* while other participants remain.
HostLeftStep(r) ==
    /\ Has(rooms, r) /\ Has(rooms', r)
    /\ rooms[r].host \in Ids(rooms[r].participants) \ Ids(rooms'[r].participants)

\* The participants of r that remain when its host is taken out
Remaining(r) == SelectSeq(rooms[r].participants, LAMBDA p : p.id # rooms[r].host)

\* The emits of the step that carry event ev
EmittedNext(ev) == {i \in 1..Len(out') : out'[i].ev = ev}

\* C12: when the host leaves or disconnects while others remain, the first
\* remaining participant in join order becomes room.host and carries the
\* isHost flag, and exactly one host-transferred is emitted, which is
\* delivered to the new host and to nobody else.
C12_HostTransfer ==
    [][\A r \in RoomIds : HostLeftStep(r) =>
          /\ rooms'[r].host = Remaining(r)[1].id
          /\ rooms'[r].participants[1].id = rooms'[r].host
          /\ rooms'[r].participants[1].isHost
          /\ Cardinality(EmittedNext("host-transferred")) = 1
          /\ \A i \in EmittedNext("host-transferred") :
                /\ out'[i].room = r
                /\ out'[i].to = {rooms'[r].host}]_vars

\* C13: on a host hand-off, host-changed with the new host's id is delivered
\* exactly once to each remaining participant other than the new host, and
\* neither to the new host nor to the departing host.
C13_HostChanged ==
    [][\A r \in RoomIds : HostLeftStep(r) =>
          /\ Cardinality(EmittedNext("host-changed")) = 1
          /\ \A i \in EmittedNext("host-changed") :
                /\ out'[i].id = rooms'[r].host
                /\ out'[i].to = Ids(rooms'[r].participants) \ {rooms'[r].host}]_vars

\* The state the step leaves behind, as the next synchronous run reads it
CurNext ==
    [conn |-> conn', users |-> users', rooms |-> rooms', roomLocks |-> roomLocks',
     subs |-> subs', tasks |-> tasks', queue |-> queue', waiting |-> waiting',
     out |-> <<>>, peers |-> peers']

\* A leave-room of sock handled in state st, up to its first await
LeaveAgain(st, sock) ==
    leaveCurrentRoom([st EXCEPT !.tasks = Put(@, 0, NewTask(sock, "leave", NoRoom))], 0)

\* st2 differs from st in no room, registry entry, lock or channel, and
\* nothing was emitted on the way.
SameEffect(st, st2) ==
    /\ st2.rooms = st.rooms /\ st2.users = st.users
    /\ st2.roomLocks = st.roomLocks /\ st2.subs = st.subs
    /\ st2.out = <<>>

\* Task tid is a leave-room that waited for the same lock as an earlier
\* leave-room of its connection, which has just run its operation.
RepeatedLeave(tid) ==
    /\ tasks[tid].kind = "leave"
    /\ \E t \in DOMAIN tasks :
          /\ t < tid
          /\ tasks[t].kind = "leave" /\ tasks[t].sock = tasks[tid].sock
          /\ tasks[t].pc \in {"L_rel", "L_ret"}

\* C14: a leave-room from a connection whose registry currentRoom is null
\* changes no room, registry entry, lock or channel and emits nothing; a
\* second leave-room right after a leave-room changes and emits nothing
\* either, neither when it is handled nor, if both had to wait for the
\* room's lock, when it runs behind the first.
C14_LeaveIdempotent ==
    [][/\ \A sock \in Active :
            LeaveRoom(sock) =>
              /\ users[sock].currentRoom = NoRoom =>
                    /\ UNCHANGED <<rooms, users, roomLocks, subs, tasks, waiting, queue>>
                    /\ out' = <<>>
              /\ SameEffect(CurNext, LeaveAgain(CurNext, sock))
       /\ (RunLAcq /\ RepeatedLeave(Head(queue))) =>
              /\ UNCHANGED <<rooms, users, subs>>
              /\ out' = <<>>]_vars

\* Connection 1 has left Hall and sent leave-room again: the second request
\* found its currentRoom null.
C14_Witness ==
    /\ Has(users, 1) /\ users[1].currentRoom = NoRoom
    /\ Has(rooms, Hall) /\ 1 \notin Ids(rooms[Hall].participants)
    /\ nEvents = 2 /\ DOMAIN rateLimitMap = {}
    /\ tasks = EmptyMap /\ out = <<>>

\* A repeated leave-room is about to run behind the first.
C14_RepeatedRuns ==
    /\ queue # <<>> /\ tasks[Head(queue)].pc = "L_acq"
    /\ RepeatedLeave(Head(queue))

\* The state no relay or chat handler may touch
ServerState == <<conn, users, rooms, roomLocks, rateLimitMap, subs, tasks, queue, waiting>>

\* The message names the room the sender's registry entry names.
FromMember(sock, data) == InRoomOf(Cur, sock, Get(data, "roomId"))

\* The step emits nothing and changes no state of the server.
Silent == out' = <<>> /\ UNCHANGED ServerState

\* C15: an offer, answer or ice-candidate whose sender's registry
\* currentRoom differs from the roomId in the message makes the server emit
\* nothing, to the sender or to anyone else, and changes no state: a step
\* that is not silent is not the handling of such a message.
C15_SilentDrop ==
    [][Silent \/
       \A sock \in Active :
         /\ \A data \in OfferData :
               ~(~FromMember(sock, data) /\ Offer(sock, data))
         /\ \A data \in AnswerData :
               ~(~FromMember(sock, data) /\ Answer(sock, data))
         /\ \A data \in CandidateData :
               ~(~FromMember(sock, data) /\ IceCandidate(sock, data))]_vars

\* Connection 2 is in rm1 and connection 1 in Hall; the second event, which
\* was no join-room, left everything as it was and emitted nothing: such is
\* an offer of connection 1 naming rm1.
C15_Witness ==
    /\ nEvents = 2 /\ out = <<>> /\ tasks = EmptyMap
    /\ users[2].currentRoom = RM1 /\ users[1].currentRoom = Hall
    /\ DOMAIN rateLimitMap = {2} /\ Len(rateLimitMap[2]) = 1

\* LongText without the blanks around it, cut after 1000 characters
LongTextCut == Rep("a", MaxMessageLen - 1) \o <<" ">>

\* The text the claim expects to be delivered for each message sent
ExpectedText(m) ==
    CASE m = PaddedHi -> Hi
      [] m = Hi -> Hi
      [] m = LongText -> LongTextCut
      [] OTHER -> <<>>

\* The message is a string that is not empty after trimming, sent by a
\* member of the room it names.
Deliverable(sock, data) ==
    /\ data.t = "object"
    /\ FromMember(sock, data)
    /\ Get(data, "message").t = "string"
    /\ ExpectedText(Get(data, "message").v) # <<>>

\* C16: a chat-message from a member of the room is emitted once, its text
\* the input trimmed and then cut to at most 1000 characters, with a new
\* id, the sender's id as fromId and the time as timestamp; a message that
\* is empty after trimming, is no string, or comes from a connection whose
\* currentRoom is not the room named makes the server emit nothing.
C16_Chat ==
    [][\A sock \in Active : \A data \in ChatData :
         IF Deliverable(sock, data)
         THEN ChatMessage(sock, data) =>
                 /\ Len(out') = 1
                 /\ out'[1].ev = "chat-message"
                 /\ out'[1].message = ExpectedText(Get(data, "message").v)
                 /\ Len(out'[1].message) <= MaxMessageLen
                 /\ out'[1].fromId = sock
                 /\ out'[1].id = nEvents'
                 /\ out'[1].timestamp = now
         ELSE out' = <<>> \/ ~ChatMessage(sock, data)]_vars

\* The long message has just been delivered in rm1, cut to 1000 characters.
C16_Witness ==
    /\ Len(out) = 1 /\ out[1].ev = "chat-message"
    /\ out[1].room = RM1
    /\ Len(out[1].message) = MaxMessageLen
    /\ out[1].to # {}

\* C17: after a run of the sweep no room is left whose lastActivity is more
\* than the threshold back, participants or not, and every room whose
\* lastActivity is within the threshold is still there, as it was.
C17_Sweep ==
    [][Timers =>
         /\ \A r \in DOMAIN rooms' : now' - rooms'[r].lastActivity <= inactiveThreshold
         /\ \A r \in DOMAIN rooms :
               now' - rooms[r].lastActivity <= inactiveThreshold =>
                   (Has(rooms', r) /\ rooms'[r] = rooms[r])]_vars

\* The sweep has run: Hall is gone although its participants never left
\* (they are still registered in it), and rm1, joined half an hour ago, is
\* still there.
C17_Witness ==
    /\ nSweeps = 1
    /\ ~Has(rooms, Hall) /\ users[101].currentRoom = Hall
    /\ Has(rooms, RM1) /\ now - rooms[RM1].lastActivity = SweepInterval

\* The connection is gone and nothing is pending for it.
Gone(s) ==
    /\ conn[s] = "closed"
    /\ \A t \in DOMAIN tasks : tasks[t].sock # s

\* C18: once a connection's disconnect has been handled and every operation
\* pending for it has finished, its id is in no room's participant list and
\* it has no entry in the users registry or in the rate-limit map.
C18_DisconnectCleansUp ==
    \A s \in Active :
        Gone(s) =>
            /\ \A r \in DOMAIN rooms : s \notin Ids(rooms[r].participants)
            /\ ~Has(users, s)
            /\ ~Has(rateLimitMap, s)

\* Values a client may send as room id
RoomIdSamples ==
    {Get(d, "roomId") : d \in BadRoomData \cup GoodData}
    \cup {Str(<<"a", "-", "_">>), Str(<<"A", "0", "z", "9">>), Str(<<"a", "b">>),
          Str(<<"a", " ", "b">>), Str(<<"a", "b", "c", "\n">>), Str(<<"a", ".", "b">>),
          Str(Rep("Z", MaxRoomIdLen)), Str(Rep("_", MaxRoomIdLen + 1)),
          Num(0), Num(123), Obj([length |-> Num(3)])}

Letters ==
    {"a","b","c","d","e","f","g","h","i","j","k","l","m","n","o","p","q","r","s","t",
     "u","v","w","x","y","z","A","B","C","D","E","F","G","H","I","J","K","L","M","N",
     "O","P","Q","R","S","T","U","V","W","X","Y","Z"}
Digits == {"0","1","2","3","4","5","6","7","8","9"}

\* A string of 3 to 50 letters, digits, hyphens and underscores
WellFormedRoomId(x) ==
    /\ x.t = "string"
    /\ Len(x.v) >= 3 /\ Len(x.v) <= 50
    /\ \A i \in 1..Len(x.v) : x.v[i] \in Letters \cup Digits \cup {"-", "_"}

ValidatorAccepts == \A x \in RoomIdSamples : validateRoomId(x).isValid <=> WellFormedRoomId(x)

\* The payloads whose room id is not well formed
IllFormedData == {d \in BadRoomData \cup GoodData : ~WellFormedRoomId(Get(d, "roomId"))}

\* The request is answered with one join-error of the given code, and no
\* room, lock, registry entry, channel or pending handler is touched.
RejectedWith(sock, code) ==
    /\ out' = <<Ev("join-error", sock, {sock}, NoRoom, 0, 0, <<>>, code)>>
    /\ UNCHANGED <<rooms, roomLocks, users, subs, tasks, queue, waiting>>

\* C19 as stated: validateRoomId accepts exactly the strings of 3 to 50
\* letters, digits, hyphens and underscores, and a join-room with any other
\* room id is rejected with INVALID_ROOM_ID before any room is created, any
\* lock is taken or any membership is changed.
C19_BadRoomIdRejected ==
    [][/\ ValidatorAccepts
       /\ \A sock \in Active : \A data \in IllFormedData :
             JoinRoom(sock, data) => RejectedWith(sock, "INVALID_ROOM_ID")]_vars

\* C19 amended: the same, except that the rate limiter comes first: a
\* requester that is over the rate limit is rejected with RATE_LIMITED
\* instead, equally before any room, lock or membership is touched.
C19_BadRoomIdRejectedUnlessLimited ==
    [][/\ ValidatorAccepts
       /\ \A sock \in Active : \A data \in IllFormedData :
             JoinRoom(sock, data) =>
                 RejectedWith(sock, IF checkRateLimit(sock) THEN "INVALID_ROOM_ID"
                                    ELSE "RATE_LIMITED")]_vars

\* A join-room has just been rejected for its room id while rm1 and Hall
\* exist and the requester was within the rate limit.
C19_Witness ==
    /\ EmittedCode("INVALID_ROOM_ID") # {}
    /\ Has(rooms, RM1) /\ Has(rooms, Hall)
    /\ Has(rateLimitMap, BusyConn) /\ Len(rateLimitMap[BusyConn]) = RateMax


\* C20: in the Meeting contract, after any sequence of createMeeting,
\* addParticipant, removeParticipant and joinMeeting calls by any callers in
\* any order, calls on a meeting id not yet created included, no address
\* appears more than once in any meeting's participant list.
C20_NoDuplicateParticipants ==
    \A meetingId \in MeetingIds :
        \A i, j \in 1 .. Len(getParticipants(meetingId)) :
            getParticipants(meetingId)[i] = getParticipants(meetingId)[j] => i = j

\* The other half of C20: a call of addParticipant by the creator, or of
\* joinMeeting on a meeting that is not private, that names an address already
\* in the list reverts with "Already a participant" and changes no storage.
C20_DuplicateAddReverts ==
    [][\A sender \in Accounts : \A meetingId \in MeetingIds :
          /\ \A participant \in Accounts :
                (/\ addParticipant(sender, meetingId, participant)
                 /\ sender = meetings[meetingId].creator
                 /\ isParticipant(meetingId, participant))
                => /\ tx'.status = "Already a participant"
                   /\ UNCHANGED <<owner, meetingCount, meetings, meetingParticipants>>
          /\ (/\ joinMeeting(sender, meetingId)
              /\ ~meetings[meetingId].isPrivate
              /\ isParticipant(meetingId, sender))
             => /\ tx'.status = "Already a participant"
                /\ UNCHANGED <<owner, meetingCount, meetings, meetingParticipants>>]_vars

\* C21: addParticipant and removeParticipant on a meeting succeed only when
\* the caller is that meeting's creator; a call by any other address reverts
\* with "Only creator can add participants" / "Only creator can remove
\* participants" and leaves the participant list, and all storage, unchanged.
C21_OnlyCreator ==
    [][\A sender \in Accounts : \A meetingId \in MeetingIds : \A participant \in Accounts :
          /\ addParticipant(sender, meetingId, participant) =>
                IF sender = meetings[meetingId].creator
                THEN tx'.status \in {"ok", "Already a participant"}
                ELSE /\ tx'.status = "Only creator can add participants"
                     /\ getParticipants(meetingId)' = getParticipants(meetingId)
                     /\ UNCHANGED <<owner, meetingCount, meetings, meetingParticipants>>
          /\ removeParticipant(sender, meetingId, participant) =>
                IF sender = meetings[meetingId].creator
                THEN tx'.status \in {"ok", "Participant not found"}
                ELSE /\ tx'.status = "Only creator can remove participants"
                     /\ getParticipants(meetingId)' = getParticipants(meetingId)
                     /\ UNCHANGED <<owner, meetingCount, meetings, meetingParticipants>>]_vars

\* bob has just been refused the removal of a participant of alice's meeting,
\* to which alice had added bob.
C21_Witness ==
    /\ tx.fn = "removeParticipant" /\ tx.sender = "bob" /\ tx.meetingId = 1
    /\ tx.status = "Only creator can remove participants"
    /\ meetings[1].creator = "alice"
    /\ meetings[1].isPrivate
    /\ getParticipants(1) = <<"alice", "bob">>

\* The addresses in a meeting's participant list
Members(parts) == {parts[i] : i \in 1 .. Len(parts)}

\* C22: joinMeeting on a private meeting always reverts with "This meeting
\* is private", so the participant list of a private meeting holds only its
\* creator and the addresses its creator added: it holds the creator alone
\* when the meeting is created, and grows only by the creator's
\* addParticipant; joinMeeting on a public meeting by a non-participant
\* appends the caller and makes isParticipant true for it.
C22_PrivateMeeting ==
    [][/\ \A sender \in Accounts : \A meetingId \in MeetingIds :
            joinMeeting(sender, meetingId) =>
                IF meetings[meetingId].isPrivate
                THEN /\ tx'.status = "This meeting is private"
                     /\ UNCHANGED meetings
                ELSE ~isParticipant(meetingId, sender) =>
                        /\ tx'.status = "ok"
                        /\ getParticipants(meetingId)' =
                               Append(getParticipants(meetingId), sender)
                        /\ isParticipant(meetingId, sender)'
       /\ \A meetingId \in MeetingIds :
            meetings'[meetingId].isPrivate =>
                IF meetings[meetingId].isPrivate
                THEN \A a \in Members(getParticipants(meetingId)') \
                                Members(getParticipants(meetingId)) :
                        /\ tx'.fn = "addParticipant"
                        /\ tx'.sender = meetings[meetingId].creator
                        /\ tx'.participant = a
                ELSE Members(getParticipants(meetingId)') =
                        {meetings'[meetingId].creator}]_vars

\* Task t is inside the critical section of its withRoomLock frame for room
\* r: the frame has set its lock promise and has not run its finally block.
\* For the frame the join-room handler calls that is from the acquisition to
\* W_rel, for the frame leaveCurrentRoom calls from the acquisition to L_rel.
InCritical(t, r) ==
    \/ /\ tasks[t].kind = "join" /\ tasks[t].room = r
       /\ tasks[t].pc \in {"L_acq", "L_rel", "L_ret", "op_join", "W_rel"}
    \/ /\ tasks[t].lroom = r /\ tasks[t].pc = "L_rel"

\* The step is the finally block of a withRoomLock frame of the task at the
\* head of the queue.
FinallyStep == RunWRel \/ RunLRel
\* The room and the lock promise of that frame
FinallyRoom ==
    IF tasks[Head(queue)].pc = "W_rel" THEN tasks[Head(queue)].room
    ELSE tasks[Head(queue)].lroom
FinallyLock ==
    LockOf(Head(queue), IF tasks[Head(queue)].pc = "W_rel" THEN "W" ELSE "L")

\* The tasks awaiting a lock promise
Awaiting(lock) == {t \in DOMAIN tasks : tasks[t].wait = lock}

\* C23: when the operation passed to withRoomLock has returned, the lock
\* taken for the room is released and every operation waiting on it is
\* woken; whenever no operation is inside a critical section for room R,
\* roomLocks has no entry for R; and a finishing operation never removes the
\* lock entry of another operation that is still inside its critical section.
C23_LockRelease ==
    /\ [](\A r \in RoomIds :
            Has(roomLocks, r) => \E t \in DOMAIN tasks : InCritical(t, r))
    /\ [][FinallyStep =>
            /\ ~Has(roomLocks', FinallyRoom)
            /\ \A t \in Awaiting(FinallyLock) :
                  /\ tasks'[t].wait = NoLock
                  /\ \E i \in 1..Len(queue') : queue'[i] = t
            /\ Has(roomLocks, FinallyRoom) =>
                  \/ roomLocks[FinallyRoom] = FinallyLock
                  \/ ~(/\ Has(tasks, roomLocks[FinallyRoom][1])
                       /\ InCritical(roomLocks[FinallyRoom][1], FinallyRoom))]_vars

\* C24: whenever a user-joined for connection A in room R has been emitted,
\* A is in R's participant list and A's registry currentRoom is R; whenever
\* a user-left for A in R has been emitted, A is no longer in R's participant
\* list and its registry currentRoom is null (or, on a disconnect, its
\* registry entry is gone).
C24_WriteBeforeEmit ==
    \A i \in 1..Len(out) :
        /\ out[i].ev = "user-joined" =>
              /\ Has(rooms, out[i].room)
              /\ out[i].id \in Ids(rooms[out[i].room].participants)
              /\ Has(users, out[i].id)
              /\ users[out[i].id].currentRoom = out[i].room
        /\ out[i].ev = "user-left" =>
              /\ Has(rooms, out[i].room) =>
                    out[i].id \notin Ids(rooms[out[i].room].participants)
              /\ Has(users, out[i].id) => users[out[i].id].currentRoom = NoRoom

\* Connection 3 has just left rm1, where connection 2 stays and is told so.
C24_Witness ==
    /\ Len(out) >= 1 /\ out[1].ev = "user-left" /\ out[1].room = RM1
    /\ out[1].id = 3 /\ out[1].to = {2}
    /\ Has(rooms, RM1) /\ Ids(rooms[RM1].participants) = {2}
    /\ users[3].currentRoom = NoRoom

\* In this step connection a is taken out of room r's participant list and
\* others remain in it.
LeftStep(r, a) ==
    /\ Has(rooms, r) /\ Has(rooms', r)
    /\ a \in Ids(rooms[r].participants) \ Ids(rooms'[r].participants)

\* The user-left events of the step naming a in room r that reach m
UserLeftTo(r, a, m) ==
    {i \in 1..Len(out') :
        out'[i].ev = "user-left" /\ out'[i].room = r /\ out'[i].id = a /\ m \in out'[i].to}

\* C25: when a participant leaves or disconnects from a room that still has
\* other participants, each remaining participant receives exactly one
\* user-left naming the departed connection, and the departed connection
\* receives none.
C25_UserLeft ==
    [][\A r \in RoomIds : \A a \in Active :
          LeftStep(r, a) =>
              /\ \A m \in Ids(rooms'[r].participants) :
                    Cardinality(UserLeftTo(r, a, m)) = 1
              /\ \A i \in EmittedNext("user-left") : a \notin out'[i].to]_vars

\* The payloads that carry a target, a payload and a room id
WellFormedRelay(field, datas) ==
    {d \in datas : d.t = "object" /\ Truthy(Get(d, "targetId"))
                   /\ Truthy(Get(d, field)) /\ Truthy(Get(d, "roomId"))}
WellFormedOffers == WellFormedRelay("offer", OfferData)
WellFormedAnswers == WellFormedRelay("answer", AnswerData)
WellFormedCandidates == WellFormedRelay("candidate", CandidateData)

\* The connection a targetId names, if it names one that is connected
NamedBy(targetId) ==
    IF targetId.t = "id" /\ targetId.v \in Sockets /\ conn[targetId.v] = "open"
    THEN {targetId.v} ELSE {}

\* The step emits event ev once, with the payload of data under field as it
\* was sent and the sender's id as fromId; it reaches the connection named
\* by targetId unless that is the sender, and nobody else.
RelayedOnce(ev, field, sock, data) ==
    /\ Len(out') = 1
    /\ out'[1].ev = ev
    /\ out'[1].id = sock
    /\ out'[1].payload = Get(data, field)
    /\ out'[1].to = NamedBy(Get(data, "targetId")) \ {sock}

\* C26: an offer, answer or ice-candidate from a sender whose currentRoom is
\* the message's roomId is delivered exactly once, only to the connection
\* named by targetId, with the payload unchanged and fromId the sender's
\* id; it is never delivered to the sender or to a third connection.
C26_RelayToTargetOnly ==
    [][\A sock \in Active :
          /\ \A data \in WellFormedOffers :
                (FromMember(sock, data) /\ Offer(sock, data))
                    => RelayedOnce("offer", "offer", sock, data)
          /\ \A data \in WellFormedAnswers :
                (FromMember(sock, data) /\ Answer(sock, data))
                    => RelayedOnce("answer", "answer", sock, data)
          /\ \A data \in WellFormedCandidates :
                (FromMember(sock, data) /\ IceCandidate(sock, data))
                    => RelayedOnce("ice-candidate", "candidate", sock, data)]_vars

\* The sender's registry entry names room r.
MemberOf(sock, r) == Has(users, sock) /\ users[sock].currentRoom = r

\* The step emits event ev once, tagged with the sender's id, and it reaches
\* every other participant of room r and not the sender.
Broadcast(ev, sock, r) ==
    /\ Len(out') = 1
    /\ out'[1].ev = ev
    /\ out'[1].id = sock
    /\ sock \notin out'[1].to
    /\ Has(rooms, r) => \A m \in Ids(rooms[r].participants) \ {sock} : m \in out'[1].to

\* The step delivers nothing to anybody.
Undelivered == \A i \in 1..Len(out') : out'[i].to = {}

\* The payloads that name room r and carry what the handler asks for
MediaFor(r) == {d \in MediaData : d.t = "object" /\ Get(d, "roomId") = Str(r)
                                  /\ Get(d, "mediaState").t = "object"}
ShareFor(r) == {d \in ShareData : d.t = "object" /\ Get(d, "roomId") = Str(r)}

\* C27: a media-state-update, start-screen-share or stop-screen-share from a
\* member of room R is delivered exactly once to every other current
\* participant of R, tagged with the sender's id as participantId, and is
\* never echoed to the sender; from a connection whose currentRoom is not R
\* it is delivered to nobody.
C27_RoomBroadcast ==
    [][\A sock \in Active : \A r \in RoomIds :
          /\ \A data \in MediaFor(r) :
                MediaStateUpdate(sock, data) =>
                    IF MemberOf(sock, r)
                    THEN /\ Broadcast("participant-media-update", sock, r)
                         /\ out'[1].payload = Get(data, "mediaState")
                    ELSE Undelivered
          /\ \A data \in ShareFor(r) :
                /\ StartScreenShare(sock, data) =>
                      IF MemberOf(sock, r)
                      THEN Broadcast("participant-screen-share-start", sock, r)
                      ELSE Undelivered
                /\ StopScreenShare(sock, data) =>
                      IF MemberOf(sock, r)
                      THEN Broadcast("participant-screen-share-stop", sock, r)
                      ELSE Undelivered]_vars

\* The last step before this one handled a room action in room r: it
\* emitted a chat message or a join notification there.  No time has passed
\* since; the sweep's next run comes half an hour later.
JustActive(r) ==
    \E i \in 1..Len(out) :
        /\ out[i].ev \in {"chat-message", "user-joined"}
        /\ out[i].room = r

\* C28: the sweep deletes only idle rooms: a room in which a member
\* performed a room action within the last 2 hours, be it a join, a chat
\* message or any other, is not deleted by the sweep.
C28_SweepSparesActive ==
    [][Timers => \A r \in DOMAIN rooms : JustActive(r) => Has(rooms', r)]_vars

\* The rooms this step removes from the rooms map
Removed == DOMAIN rooms \ DOMAIN rooms'

\* C29: the idle sweep is serialized with room operations: it never deletes
\* a room while a join or leave operation holds that room's lock, so that no
\* operation in flight goes on with a room the sweep has removed.
C29_SweepSerialized ==
    [][Timers =>
          \A r \in Removed :
              /\ ~Has(roomLocks, r)
              /\ \A t \in DOMAIN tasks : ~InCritical(t, r)]_vars

\* C30: whenever a registered connection's currentRoom is a room R, R is in
\* the rooms map and the connection's id is in R's participant list, after
\* any sequence of joins, leaves, disconnects and sweeps.
C30_RegistryAgrees ==
    \A s \in DOMAIN users :
        users[s].currentRoom # NoRoom =>
            /\ Has(rooms, users[s].currentRoom)
            /\ s \in Ids(rooms[users[s].currentRoom].participants)

\* The connections subscribed to the channel of room r
Subscribers(r) == {x \in Sockets : r \in subs[x]}

\* The participants of room r, none if there is no such room
ParticipantsOf(r) == IF Has(rooms, r) THEN Ids(rooms[r].participants) ELSE {}

\* The events that go to a whole room
RoomWide ==
    {"user-joined", "user-left", "host-changed", "chat-message",
     "participant-media-update", "participant-screen-share-start",
     "participant-screen-share-stop"}

\* C31: the set of connections subscribed to a room's channel always equals
\* the room's participant list, so a connection is subscribed to at most one
\* room and every room-wide event for room R reaches only current
\* participants of R, also when R was deleted by the sweep and created anew.
C31_ChannelIsRoom ==
    /\ \A r \in RoomIds : Subscribers(r) = ParticipantsOf(r)
    /\ \A x \in Sockets : Cardinality(subs[x]) <= 1
    /\ \A i \in 1..Len(out) :
          out[i].ev \in RoomWide => out[i].to \subseteq ParticipantsOf(out[i].room)

\* The negotiation messages the server relays
Negotiation == {"offer", "answer", "ice-candidate"}

\* C32: a relayed offer, answer or ice-candidate is delivered only to a
\* connection that is a current participant of the sender's room: a member
\* of room R cannot have a negotiation message delivered to a connection
\* that is in another room or in no room.
C32_RelayWithinRoom ==
    \A i \in 1..Len(out) :
        out[i].ev \in Negotiation =>
            \A m \in out[i].to :
                /\ m \in ParticipantsOf(out[i].room)
                /\ Has(users, m) /\ users[m].currentRoom = out[i].room

\* The requests of a connection admitted within the minute that ends at
\* time t, by their number
Admitted(rl, sock, t) ==
    IF Has(rl, sock)
    THEN Cardinality({i \in 1..Len(rl[sock]) : rl[sock][i] <= t /\ t - rl[sock][i] < RateWindow})
    ELSE 0
RateLimited(sock) ==
    \E i \in 1..Len(out') : out'[i].ev = "join-error" /\ out'[i].code = "RATE_LIMITED"

\* C33: at most 30 join-room requests of a connection are admitted within
\* any 60-second window.  A join-room that finds 30 admitted requests in the
\* last 60 seconds gets join-error RATE_LIMITED and nothing else, changes no
\* room, registry, channel or lock state and is not counted; a join-room
\* that finds fewer is admitted and counted, and gets no RATE_LIMITED.
C33_RateLimit ==
    [][ /\ \A sock \in DOMAIN rateLimitMap' :
              \A i \in 1..Len(rateLimitMap'[sock]) :
                  Admitted(rateLimitMap', sock, rateLimitMap'[sock][i]) <= RateMax
        /\ nEvents' = nEvents + 1 =>
              \A sock \in {2, BusyConn}, data \in GoodData \cup {Undef} :
                  JoinRoom(sock, data) =>
                      IF Admitted(rateLimitMap, sock, now) >= RateMax
                      THEN /\ out' = <<Ev("join-error", sock, {sock}, NoRoom, 0, 0, <<>>,
                                          "RATE_LIMITED")>>
                           /\ UNCHANGED <<rooms, users, subs, roomLocks, rateLimitMap, tasks>>
                      ELSE /\ ~RateLimited(sock)
                           /\ Admitted(rateLimitMap', sock, now)
                                = Admitted(rateLimitMap, sock, now) + 1
      ]_vars

\* One millisecond after the start the oldest request has left the window:
\* the busy connection has been admitted again, up to 30 requests in the
\* window, and its next join-room is rejected.
C33_Witness ==
    /\ now = inactiveThreshold + 1
    /\ EmittedCode("RATE_LIMITED") # {}
    /\ Admitted(rateLimitMap, BusyConn, now) = RateMax
    /\ rateLimitMap[BusyConn][RateMax] = now

\* A payload that is null or no object, or lacks one of the properties the
\* handler requires (a property that is undefined or null is lacking)
Lacks(data, fields) ==
    \/ data.t # "object"
    \/ \E f \in fields : f \notin DOMAIN data.v \/ data.v[f].t \in {"undefined", "null"}
\* The step delivered nothing and changed nothing of the server or of its
\* clients
Dropped ==
    /\ \A i \in 1..Len(out') : out'[i].to = {}
    /\ UNCHANGED <<conn, users, rooms, roomLocks, rateLimitMap, subs, tasks, queue,
                   waiting, peers>>
BadOffers == {d \in Inbound.offer : Lacks(d, {"targetId", "offer", "roomId"})}
BadAnswers == {d \in Inbound.answer : Lacks(d, {"targetId", "answer", "roomId"})}
BadCandidates == {d \in Inbound.candidate : Lacks(d, {"targetId", "candidate", "roomId"})}
BadMedia == {d \in Inbound.media : Lacks(d, {"roomId", "mediaState"})}
BadChat == {d \in Inbound.chat : Lacks(d, {"roomId", "message"})}
BadShare == {d \in Inbound.share : Lacks(d, {"roomId"})}

\* C34: a malformed message (a payload that is null or no object, or that
\* lacks a required property) on offer, answer, ice-candidate,
\* media-state-update, chat-message, start-screen-share or stop-screen-share
\* is delivered to no connection and changes no room, registry, lock,
\* channel, rate or client state, so that whatever is handled next is
\* handled as if the message had not been sent.
C34_MalformedDropped ==
    [][ nEvents' = nEvents + 1 /\ ~Dropped =>
          \A sock \in {1, 2} :
              /\ \A data \in BadOffers : Offer(sock, data) => Dropped
              /\ \A data \in BadAnswers : Answer(sock, data) => Dropped
              /\ \A data \in BadCandidates : IceCandidate(sock, data) => Dropped
              /\ \A data \in BadMedia : MediaStateUpdate(sock, data) => Dropped
              /\ \A data \in BadChat : ChatMessage(sock, data) => Dropped
              /\ \A data \in BadShare : StartScreenShare(sock, data) => Dropped
              /\ \A data \in BadShare : StopScreenShare(sock, data) => Dropped
      ]_vars

\* A connection in no room has sent start-screen-share with roomId null
\* while rm1 exists: the handler emitted to a channel nobody is in.
C34_Witness ==
    /\ Has(rooms, RM1)
    /\ \E i \in 1..Len(out) :
          /\ out[i].ev = "participant-screen-share-start"
          /\ out[i].room = NoRoom
          /\ out[i].to = {}

\* C35: in backend/server.js, when the grace timer set by the leave that
\* emptied a room fires, the room is deleted if it is empty at that moment
\* and nothing is deleted if it is not; no other room is ever deleted by
\* the timer.
C35_GraceDelete ==
    [][ \A t \in Timeouts :
            GraceTimeout(t) =>
                backend'.rooms =
                    IF Has(backend.rooms, t.room) /\ backend.rooms[t.room].participants = {}
                    THEN Del(backend.rooms, t.room)
                    ELSE backend.rooms
      ]_vars

\* C36: in frontend/backend/server.js the history stored for a room never
\* exceeds 50 messages, and the messages of a room-joined snapshot are the
\* last min(n, 50) of the room's messages, in the order they were sent.
C36_HistoryCapped ==
    /\ \A i \in 1..Len(wsServer.rooms) : Len(wsServer.rooms[i].messages) <= HistoryCap
    /\ \A k \in 1..Len(wsServer.sent) :
          wsServer.sent[k].type = "room-joined" =>
              LET all == wsServer.rooms[RoomIndex(wsServer.rooms, wsServer.sent[k].room)].messages
                  n == IF Len(all) < HistoryCap THEN Len(all) ELSE HistoryCap
              IN  /\ Len(wsServer.sent[k].messages) = n
                  /\ \A j \in 1..n : wsServer.sent[k].messages[j] = all[Len(all) - n + j]
                  /\ \A j \in 1..(n - 1) :
                        wsServer.sent[k].messages[j].id < wsServer.sent[k].messages[j + 1].id

\* The handler of 'close' or of 'error' runs for client c
Disconnects(c) ==
    \/ WsClose(c)
    \/ \E state \in {"OPEN", "CLOSING", "CLOSED"} : WsError(c, state)
\* What such a step shows: the socket closed or had its error
HasGone(c) ==
    \/ wsServer'.readyState[c] = "CLOSED" /\ wsServer.readyState[c] # "CLOSED"
    \/ wsServer'.errored[c] /\ ~wsServer.errored[c]
InRoom(c, room) == c \in Range(room.participants)
\* The participant-left messages about c in room roomId sent to p
LeftNotices(c, roomId, p) ==
    {k \in 1..Len(wsServer'.sent) :
        /\ wsServer'.sent[k].type = "participant-left"
        /\ wsServer'.sent[k].about = c
        /\ wsServer'.sent[k].room = roomId
        /\ wsServer'.sent[k].to = p}

\* C37: in frontend/backend/server.js, after handleClientDisconnect(c), run
\* by the close handler, by the error handler or by both in either order,
\* c is a participant of no room; every room of which c was the only
\* participant is gone; each other participant with an open socket of each
\* room c was in has been sent exactly one participant-left for c and that
\* room, and nothing else was sent; and when c was in no room and not in
\* clients (a second call), rooms and clients are unchanged and nothing is
\* sent.
C37_DisconnectOnce ==
    [][ \A c \in Clients :
            HasGone(c) /\ Disconnects(c) =>
                LET old == wsServer.rooms
                    new == wsServer'.rooms
                IN  /\ \A i \in 1..Len(new) : ~InRoom(c, new[i])
                    /\ c \notin wsServer'.clients
                    /\ \A i \in 1..Len(old) :
                          old[i].participants = <<c>> => RoomIndex(new, old[i].id) = 0
                    /\ \A i \in 1..Len(old), p \in Clients \ {c} :
                          Cardinality(LeftNotices(c, old[i].id, p)) =
                              IF /\ InRoom(c, old[i]) /\ InRoom(p, old[i])
                                 /\ p \in wsServer.clients
                                 /\ wsServer.readyState[p] = "OPEN"
                              THEN 1 ELSE 0
                    /\ \A k \in 1..Len(wsServer'.sent) :
                          /\ wsServer'.sent[k].type = "participant-left"
                          /\ wsServer'.sent[k].about = c
                          /\ wsServer'.sent[k].to # c
                          /\ RoomIndex(old, wsServer'.sent[k].room) # 0
                    /\ (c \notin wsServer.clients /\ \A i \in 1..Len(old) : ~InRoom(c, old[i]))
                          => /\ new = old
                             /\ wsServer'.clients = wsServer.clients
                             /\ wsServer'.sent = <<>>
      ]_vars

\* Client 1 has had both its error and its close after one message was
\* handled: it is out of the hall and of clients, client 2 remains in the
\* hall, no other room is left and the last step sent nothing.
C37_Witness ==
    /\ wsServer.errored[1]
    /\ wsServer.readyState[1] = "CLOSED"
    /\ 1 \notin wsServer.clients
    /\ wsServer.sent = <<>>
    /\ Len(wsServer.rooms) = 1
    /\ wsServer.rooms[1].id = Hall
    /\ wsServer.rooms[1].participants = <<2>>
    /\ wsServer.nMessages = 1

====
